---- MODULE Spec2Model ----
(***************************************************************************)
(* Model of the SQLite-backed policy store of BraneFramework/policy-store: *)
(* the `policies` table, the `active_version` ledger and the operations of *)
(* SQLiteConnection (lib/databases/sqlite/src/databaseconn.rs), run by     *)
(* concurrent connections under SQLite's exclusive transactions.           *)
(*                                                                         *)
(* Option<T> is a sequence: <<>> is None and <<x>> is Some(x).             *)
(* Result<T, E> is a record [tag, val]: tag "Ok" carries val, any other    *)
(* tag is the name of the ConnectionError variant.                         *)
(* Utc::now() reads the wall clock, the variable `clock`.  Time passes     *)
(* between two reads, and the wall clock can be set back between any two   *)
(* steps (SetClockBack), so a read can return an instant later than, equal *)
(* to or earlier than the instants stored in the tables.                   *)
(***************************************************************************)
EXTENDS Integers, Sequences, FiniteSets, TLC

(***************************************************************************)
(* Bounds of the model.                                                    *)
(***************************************************************************)
\* number of times Utc::now() is read in one behaviour
MaxClock == 4
\* number of rows the policies table may hold
MaxPolicies == 3
\* number of times Utc::now() is read by the handlers of the server
MaxServerClock == 3

(***************************************************************************)
(* Inputs.                                                                 *)
(***************************************************************************)
\* the connections that run the mutating operations
Conns == {"c1", "c2"}

\* the `user` each connection was opened with (SQLiteDatabase::connect)
ConnUser(c) ==
    IF c = "c1" THEN [id |-> "alice", name |-> "Alice"]
                ELSE [id |-> "bob", name |-> "John Smith"]

\* a content value whose Serialize implementation fails
Unserializable == "unserializable"

\* the (AttachedMetadata, Content) pairs the caller of connection c gives to
\* add_version: each caller submits policies of its own
Submissions(c) ==
    IF c = "c1"
    THEN { <<[name |-> "n1", description |-> "d1", language |-> "l1"], "allow">>,
           <<[name |-> "n1", description |-> "d1", language |-> "l1"], Unserializable>> }
    ELSE { <<[name |-> "n2", description |-> "d2", language |-> "l2"], "deny">> }

\* the version numbers given to activate
VersionArgs == {1, 2}

\* the version numbers given to get_version_metadata and get_version_content:
\* every number add_version can issue, one below and one above
QueryVersions == 0..(MaxPolicies + 1)

\* outcome of one statement handed to the SQLite engine
EngineOutcomes == {"ok", "err"}

\* outcome of a load(): rows, diesel::result::Error::NotFound, another error
LoadOutcomes == {"ok", "notfound", "err"}

None == <<>>
Some(x) == <<x>>
Ok(v) == [tag |-> "Ok", val |-> v]
Err(e) == [tag |-> e, val |-> <<>>]
Unit == <<>>

VARIABLES
    policies,   \* committed rows of table `policies`, in insertion order
    ledger,     \* committed rows of table `active_version`, in insertion order
    clock,      \* the next instant Utc::now() returns
    lock,       \* None, or Some(c): c holds SQLite's exclusive lock
    pc,         \* pc[c]: where connection c is in its call
    call,       \* call[c]: the call connection c is running
    tx,         \* tx[c]: the locals of c's transaction closure and its working copy
    last,       \* the call that returned in the last step, with its result
    issued,     \* history: one entry per add_version call that returned Ok
    during,     \* history: during[c] is the latest call of the same operation
                \* that another connection made and that returned Ok while
                \* the call of c was in flight
    pointer,    \* history: the active version and its activator, as the calls
                \* that returned Ok define them
    skew,       \* by how much the wall clock Utc::now() reads has been set back
    http,       \* the request the server is handling, and how far it has got
    resolver,   \* the key set file, the KidResolver made of it, and the last
                \* resolve_key call
    pool,       \* the tasks of the requests that use SQLiteDatabase.pool: where
                \* each is with its connection, and what its handler answered
    client,     \* a use of EndpointPath::instantiated_path: the endpoint, the
                \* arguments, and what the call returned
    listener    \* AxumServer::serve_router: how far it has got, the socket it
                \* has accepted, what it has logged, and the tasks it spawned

vars == <<policies, ledger, clock, lock, pc, call, tx, last, issued, during, pointer,
          skew, http, resolver, pool, client, listener>>

(***************************************************************************)
(* chrono conversions.  A DateTime<Utc> is an instant tagged with its      *)
(* zone; a NaiveDateTime is the bare instant.                              *)
(***************************************************************************)
UtcNow(t) == [ts |-> t, tz |-> "Utc"]
naive_utc(d) == d.ts
\* the local time of a DateTime<Utc> is at offset 0
naive_local(d) == d.ts + 0
and_utc(n) == [ts |-> n, tz |-> "Utc"]

(***************************************************************************)
(* serde_json on the generic Content.                                      *)
(***************************************************************************)
to_string(content) ==
    IF content = Unserializable THEN Err("ContentSerialize")
    ELSE Ok([json |-> content])

from_str(text) ==
    IF "json" \in DOMAIN text THEN Ok(text.json) ELSE Err("ContentDeserialize")

(***************************************************************************)
(* Tables.                                                                 *)
(***************************************************************************)
\* SqlitePolicy, the row of `policies`
SqlitePolicy(attached, version, creator, created_at, content) ==
    [ description |-> attached.description,
      name        |-> attached.name,
      language    |-> attached.language,
      version     |-> version,
      creator     |-> creator,
      created_at  |-> created_at,
      content     |-> content ]

\* SqliteActiveVersion::new
SqliteActiveVersionNew(version, activated_by, now) ==
    [ version        |-> version,
      activated_by   |-> activated_by,
      activated_on   |-> naive_local(now),
      deactivated_by |-> None,
      deactivated_on |-> None ]

\* primary key of `policies` is (version)
PoliciesKeyFree(tbl, row) ==
    \A i \in DOMAIN tbl : tbl[i].version # row.version

\* primary key of `active_version` is (version, activated_on)
ActiveVersionKeyFree(tbl, row) ==
    \A i \in DOMAIN tbl :
        ~(tbl[i].version = row.version /\ tbl[i].activated_on = row.activated_on)

\* the possible answers to `ORDER BY <col> DESC LIMIT 1`, where keys[i] is the
\* value of <col> in row i: a vector holding a row whose <col> is largest (any
\* of them on a tie), or the empty vector
LoadLatest(tbl, keys) ==
    IF tbl = <<>> THEN { <<>> }
    ELSE { <<tbl[i]>> : i \in { j \in DOMAIN tbl :
                                  \A k \in DOMAIN tbl : keys[k] <= keys[j] } }

\* column policies.created_at
CreatedAt(row) == row.created_at

\* column active_version.activated_on
ActivatedOn(row) == row.activated_on

\* the possible answers to `WHERE version = v ORDER BY created_at DESC LIMIT 1`
LoadVersion(tbl, v) ==
    LET rows == SelectSeq(tbl, LAMBDA row : row.version = v)
    IN  LoadLatest(rows, [i \in DOMAIN rows |-> CreatedAt(rows[i])])

(***************************************************************************)
(* The code of SQLiteConnection, as functions of what the engine loaded.   *)
(***************************************************************************)
\* what load() hands back for an engine outcome and the rows selected
Load(eng, rows) ==
    IF eng = "ok" THEN Ok(rows)
    ELSE IF eng = "notfound" THEN Err("NotFound")
    ELSE Err("DatabaseError")

\* Vec::pop: the last element, if any
Pop(r) == IF r = <<>> THEN None ELSE Some(r[Len(r)])

\* variant: the deactivation stamp of the loaded event is not looked at
_get_active_version_unstamped(loaded) ==
    IF loaded.tag = "Ok" THEN
        LET av == Pop(loaded.val) IN
        IF av # None THEN Ok(Some(av[1].version)) ELSE Ok(None)
    ELSE Err("GetActiveVersion")

\* SQLiteConnection::_get_active_version, applied to the loaded vector
_get_active_version(loaded) ==
    IF loaded.tag = "Ok" THEN
        LET av == Pop(loaded.val) IN
        IF av # None THEN
            IF av[1].deactivated_on # None THEN Ok(None)
            ELSE Ok(Some(av[1].version))
        ELSE Ok(None)
    ELSE Err("GetActiveVersion")

\* SQLiteConnection::get_activator, applied to the loaded vector
get_activator(loaded) ==
    IF loaded.tag = "Ok" THEN
        LET av == Pop(loaded.val) IN
        IF av # None THEN
            IF av[1].deactivated_on # None THEN Ok(None)
            ELSE Ok(Some([id |-> av[1].activated_by, name |-> "John Smith"]))
        ELSE Ok(None)
    ELSE Err("GetActiveVersion")

\* variant: name and description of the row are swapped
MetadataOfSwapped(row) ==
    [ attached |-> [name |-> row.description, description |-> row.name,
                    language |-> row.language],
      created  |-> and_utc(row.created_at),
      creator  |-> [id |-> row.creator, name |-> "John Smith"],
      version  |-> row.version ]

\* the Metadata built from a selected row of `policies`
MetadataOf(row) ==
    [ attached |-> [name |-> row.name, description |-> row.description,
                    language |-> row.language],
      created  |-> and_utc(row.created_at),
      creator  |-> [id |-> row.creator, name |-> "John Smith"],
      version  |-> row.version ]

\* variant: a version that is not stored is an error
get_version_metadata_strict(loaded) ==
    IF loaded.tag = "Ok" /\ Len(loaded.val) >= 1
    THEN Ok(Some(MetadataOf(loaded.val[1])))
    ELSE Err("GetVersion")

\* SQLiteConnection::get_version_metadata, applied to the loaded vector
get_version_metadata(loaded) ==
    IF loaded.tag = "Ok" THEN
        IF Len(loaded.val) < 1 THEN Ok(None)
        ELSE Ok(Some(MetadataOf(loaded.val[1])))
    ELSE IF loaded.tag = "NotFound" THEN Ok(None)
    ELSE Err("GetVersion")

\* SQLiteConnection::get_version_content, applied to the loaded vector
get_version_content(loaded) ==
    IF loaded.tag = "Ok" THEN
        IF Len(loaded.val) < 1 THEN Ok(None)
        ELSE LET content == from_str(loaded.val[1].content) IN
             IF content.tag = "Ok" THEN Ok(Some(content.val))
             ELSE Err("ContentDeserialize")
    ELSE IF loaded.tag = "NotFound" THEN Ok(None)
    ELSE Err("GetVersion")

\* add_version: the latest version, from the loaded vector of versions
LatestVersion(loaded) ==
    IF loaded.tag = "Ok" THEN
        LET top == Pop(loaded.val) IN
        Ok(IF top # None THEN top[1].version ELSE 0)
    ELSE Err("GetLatestVersion")

\* variant: the latest version is issued again
NextVersionSame(latest) == latest

\* variant: the numbers are issued downwards
NextVersionBelow(latest) == latest - 1

\* add_version: `let next_version: i64 = latest + 1`
NextVersion(latest) == latest + 1

\* variant: the insert replaces the newest stored row
InsertPolicyReplacing(tbl, model, eng) ==
    IF eng = "ok" /\ PoliciesKeyFree(tbl, model)
    THEN Ok(IF tbl = <<>> THEN <<model>> ELSE [tbl EXCEPT ![Len(tbl)] = model])
    ELSE Err("AddVersion")

\* add_version: `insert_into(policies).values(&model).execute(conn)`
InsertPolicy(tbl, model, eng) ==
    IF eng = "ok" /\ PoliciesKeyFree(tbl, model) THEN Ok(Append(tbl, model))
    ELSE Err("AddVersion")

\* variant: the query skips the events that carry a deactivation stamp
LoadActiveUnstamped(tbl) ==
    LET rows == SelectSeq(tbl, LAMBDA row : row.deactivated_on = None)
    IN  LoadLatest(rows, [i \in DOMAIN rows |-> ActivatedOn(rows[i])])

\* the query of _get_active_version and get_activator:
\* `active_version.limit(1).order_by(activated_on.desc())`
LoadActive(tbl) == LoadLatest(tbl, [i \in DOMAIN tbl |-> ActivatedOn(tbl[i])])

\* the query of add_version:
\* `policies.select(version).order_by(created_at.desc()).limit(1)`
LoadNewest(tbl) == LoadLatest(tbl, [i \in DOMAIN tbl |-> CreatedAt(tbl[i])])

\* add_version, after the latest version is known: the closure's result and
\* whether it read the clock.  An Ok carries the table and the new version.
AddVersionBody(tbl, latest, metadata, content, user, now, eng) ==
    LET next_version == NextVersion(latest)
        text == to_string(content)
    IN  IF text.tag # "Ok" THEN [ret |-> text, timed |-> FALSE]
        ELSE LET model == SqlitePolicy(metadata, next_version, user.id,
                                       naive_utc(now), text.val)
                 res == InsertPolicy(tbl, model, eng)
             IN  [ ret   |-> IF res.tag = "Ok"
                             THEN Ok([tbl |-> res.val, out |-> next_version])
                             ELSE res,
                   timed |-> TRUE ]

\* variant: activate never takes the early return
AlreadyActiveNever(av, version) == FALSE

\* activate: `if av.is_some_and(|v| v == version)`
AlreadyActive(av, version) == av # None /\ av[1] = version

\* activate: `insert_into(active_version).values(&model).execute(conn)`
InsertActiveVersion(tbl, model, eng) ==
    IF eng = "ok" /\ ActiveVersionKeyFree(tbl, model) THEN Ok(Append(tbl, model))
    ELSE Err("SetActive")

\* activate, after the active version is known
ActivateBody(tbl, av, version, user, now, eng) ==
    IF AlreadyActive(av, version) THEN
        [ret |-> Ok([tbl |-> tbl, out |-> Unit]), timed |-> FALSE]
    ELSE LET model == SqliteActiveVersionNew(version, user.id, now)
             res == InsertActiveVersion(tbl, model, eng)
         IN  [ ret   |-> IF res.tag = "Ok" THEN Ok([tbl |-> res.val, out |-> Unit])
                         ELSE res,
               timed |-> TRUE ]

\* deactivate: `update(active_version).filter(version.eq(av)).set(..)`
UpdateDeactivated(tbl, av, now, user, eng) ==
    IF eng = "ok" THEN
        Ok([ i \in DOMAIN tbl |->
               IF tbl[i].version = av
               THEN [tbl[i] EXCEPT !.deactivated_on = Some(naive_local(now)),
                                   !.deactivated_by = Some(user.id)]
               ELSE tbl[i] ])
    ELSE Err("DeactivateVersion")

\* variant: deactivate with nothing active is an error
DeactivateBodyStrict(tbl, av, user, now, eng) ==
    IF av = None THEN
        [ret |-> Err("DeactivateVersion"), timed |-> FALSE]
    ELSE LET res == UpdateDeactivated(tbl, av[1], now, user, eng)
         IN  [ ret   |-> IF res.tag = "Ok" THEN Ok([tbl |-> res.val, out |-> Unit])
                         ELSE res,
               timed |-> TRUE ]

\* deactivate, after the active version is known
DeactivateBody(tbl, av, user, now, eng) ==
    IF av = None THEN
        [ret |-> Ok([tbl |-> tbl, out |-> Unit]), timed |-> FALSE]
    ELSE LET res == UpdateDeactivated(tbl, av[1], now, user, eng)
         IN  [ ret   |-> IF res.tag = "Ok" THEN Ok([tbl |-> res.val, out |-> Unit])
                         ELSE res,
               timed |-> TRUE ]

(***************************************************************************)
(* Authorization: JwkResolver with a KidResolver.  A compact JWT is the    *)
(* sequence of its three dot-separated parts: the header, the payload and  *)
(* the signature.  A signature is the MAC of the first two parts under an  *)
(* algorithm and a secret.                                                 *)
(***************************************************************************)
\* the claim JwkResolver::new is given as the initiator's
initiator_claim == "username"

\* the variants of jsonwebtoken::Algorithm the tokens below name
Algorithms == {"HS256", "HS384", "RS256"}

\* jsonwebtoken's AlgorithmFamily of an algorithm
Family(alg) == IF alg \in {"HS256", "HS384"} THEN "Hmac" ELSE "Rsa"

\* DecodingKey::from_secret
from_secret(secret) == [family |-> "Hmac", secret |-> secret]

\* the length in bytes of the buffer KidResolver::new decodes a key into
SecretBuffer == 32

\* the value of an octet key in the key set file: a text that may be the
\* Base64Url encoding of `bytes`, which are `length` bytes long
KeyTexts ==
    { [encoded |-> TRUE, bytes |-> "sA", length |-> 16],
      [encoded |-> TRUE, bytes |-> "sB", length |-> 32],
      [encoded |-> TRUE, bytes |-> "sL", length |-> 33],
      [encoded |-> FALSE, bytes |-> "", length |-> 0] }

\* base64ct::Base64Url::decode(text, buffer): the bytes, unless the text is
\* no encoding or the bytes do not fit the buffer
Base64UrlDecode(text, buffer) ==
    IF text.encoded /\ text.length <= buffer THEN Ok(text.bytes)
    ELSE Err("KeyDecodeBase64")

\* jsonwebtoken::jwk::AlgorithmParameters of an entry of the key set
OctetKey(text) == [kty |-> "oct", value |-> text]
RsaKey == [kty |-> "RSA"]

\* the entries a key set file can hold: a key id or none, and a key
KeyEntries ==
    { [key_id |-> id, algorithm |-> alg] :
        id \in {None, Some("A"), Some("B")},
        alg \in {OctetKey(text) : text \in KeyTexts} \cup {RsaKey} }

\* the number of entries of the key set files looked at
MaxKeys == 2

\* the files KidResolver::new is given: one that cannot be read, one that is
\* no JSON key set, and key sets of up to MaxKeys entries
KeyFiles ==
    { [content |-> "unreadable", keys |-> <<>>], [content |-> "garbage", keys |-> <<>>] }
    \cup { [content |-> "jwks", keys |-> keys] :
             keys \in UNION { [1..n -> KeyEntries] : n \in 0..MaxKeys } }

\* HashMap::insert: the key of `id` is `key`, whatever it was
Insert(store, id, key) ==
    [k \in DOMAIN store \cup {id} |-> IF k = id THEN key ELSE store[k]]

\* the loop of KidResolver::new over the entries from the i-th on
RECURSIVE ParseKeys(_, _, _)
ParseKeys(keys, i, store) ==
    IF i > Len(keys) THEN Ok(store)
    ELSE IF keys[i].key_id # None THEN
        IF keys[i].algorithm.kty = "oct" THEN
            LET secret == Base64UrlDecode(keys[i].algorithm.value, SecretBuffer) IN
            IF secret.tag = "Ok"
            THEN ParseKeys(keys, i + 1,
                           Insert(store, keys[i].key_id[1], from_secret(secret.val)))
            ELSE secret
        ELSE Err("KeyTypeUnsupprted")
    ELSE ParseKeys(keys, i + 1, store)

\* KidResolver::new: the store, or the server error that aborts startup
KidResolver_new(file) ==
    IF file.content = "unreadable" THEN Err("FileRead")
    ELSE IF file.content # "jwks" THEN Err("FileDeserialize")
    ELSE ParseKeys(file.keys, 1, [k \in {} |-> <<>>])

\* the key set file the server is started with
ServerKeyFile ==
    [ content |-> "jwks",
      keys |-> << [key_id |-> Some("A"),
                   algorithm |-> OctetKey([encoded |-> TRUE, bytes |-> "sA", length |-> 16])],
                  [key_id |-> Some("B"),
                   algorithm |-> OctetKey([encoded |-> TRUE, bytes |-> "sB", length |-> 32])] >> ]

\* the resolver of a server that has started with `file`
Started(file) == [keyfile |-> file, built |-> Some(KidResolver_new(file)), asked |-> None]

\* KidResolver.store: the keys loaded from the key set, by key id
KeyStore == resolver.built[1].val

\* the MAC of `message` under `alg` with `secret`
Sign(alg, secret, message) == [alg |-> alg, secret |-> secret, message |-> message]

\* JSON values
JsonString(s) == [type |-> "String", str |-> s]
JsonNumber(n) == [type |-> "Number", num |-> n]
JsonArray == [type |-> "Array"]
JsonObject == [type |-> "Object"]
JsonBool == [type |-> "Bool"]
JsonNull == [type |-> "Null"]

\* serde_json::Number's Display: the decimal text of the number
number_to_string(n) == ToString(n)

\* HashMap::get
Get(map, key) == IF key \in DOMAIN map THEN Some(map[key]) ELSE None

\* `headers.get(AUTHORIZATION)`, `to_str()`, `strip_prefix("Bearer ")`
extract_jwt(headers) ==
    IF Get(headers, "authorization") = None THEN Err("AuthHeaderNotFound")
    ELSE LET value == headers["authorization"] IN
         IF ~value.visible_ascii THEN Err("AuthHeaderNonUtf8")
         ELSE IF Len(value.text) > 0 /\ Head(value.text) = "Bearer "
              THEN Ok(Tail(value.text))
         ELSE Err("MissingBearer")

\* jsonwebtoken::decode_header: three parts, the first a header that names an
\* algorithm of the Algorithm enum
decode_header(raw) ==
    IF Len(raw) = 3 /\ raw[1].alg \in Algorithms THEN Ok(raw[1])
    ELSE Err("IllegalJwt")

\* variant: every client fault of the key resolver is a bad request
kid_status_code_all_400(err) == 400

\* kid::ClientError::status_code
kid_status_code(err) ==
    IF err.tag = "HeaderKidNotFound" THEN 400
    ELSE 404

\* variant: a key id the store lacks is a fault of the server
resolve_key_unknown_is_server_fault(header) ==
    IF header.kid = None THEN Ok(Err("HeaderKidNotFound"))
    ELSE IF Get(KeyStore, header.kid[1]) = None THEN Err("UnknownKeyId")
    ELSE Ok(Ok(KeyStore[header.kid[1]]))

\* KidResolver::resolve_key: the server error is Infallible
resolve_key(header) ==
    IF header.kid = None THEN Ok(Err("HeaderKidNotFound"))
    ELSE IF Get(KeyStore, header.kid[1]) = None THEN Ok(Err("UnknownKeyId"))
    ELSE Ok(Ok(KeyStore[header.kid[1]]))

\* Validation::new(alg): one accepted algorithm, `exp` required and checked
Validation(alg) == [algorithms |-> {alg}, required_spec_claims |-> {"exp"}]

\* jsonwebtoken's verify_signature: the key is of the family of every
\* accepted algorithm, the header names an accepted algorithm, and the
\* signature is the MAC of the first two parts under that algorithm and key
verify_signature(raw, key, validation) ==
    /\ \A alg \in validation.algorithms : key.family = Family(alg)
    /\ raw[1].alg \in validation.algorithms
    /\ raw[3] = Sign(raw[1].alg, key.secret, <<raw[1], raw[2]>>)

\* jsonwebtoken's validate: the required claims are there and `exp` is not past
validate(claims, validation, now) ==
    /\ \A name \in validation.required_spec_claims : Get(claims, name) # None
    /\ claims["exp"].type = "Number"
    /\ claims["exp"].num >= now

\* variant: a header that names RS256 is taken at its word
decode_unverified(raw, key, validation, now) ==
    IF raw[1].alg = "RS256" \/ (verify_signature(raw, key, validation)
                                  /\ validate(raw[2], validation, now))
    THEN Ok(raw[2])
    ELSE Err("JwtValidate")

\* jsonwebtoken::decode::<HashMap<String, Value>>
decode(raw, key, validation, now) ==
    IF verify_signature(raw, key, validation) /\ validate(raw[2], validation, now)
    THEN Ok(raw[2])
    ELSE Err("JwtValidate")

\* the status codes the client faults of another key resolver carry
plugged_status_code(err) ==
    IF err.tag = "KeyRevoked" THEN 403
    ELSE 429

\* KeyResolveErrorWrapper::status_code: the status code of the wrapped fault
wrapper_status_code(err) ==
    IF err.tag \in {"HeaderKidNotFound", "UnknownKeyId"} THEN kid_status_code(err)
    ELSE plugged_status_code(err)

\* variant: a value without the prefix is answered as a failed validation
status_code_prefix_is_401(err) ==
    IF err.tag \in {"AuthHeaderNonUtf8", "AuthHeaderNotFound", "IllegalJwt",
                    "JwtIllegalType", "JwtMissingInitiatorClaim"}
    THEN 400
    ELSE IF err.tag \in {"JwtValidate", "MissingBearer"} THEN 401
    ELSE wrapper_status_code(err.val)

\* authresolver::ClientError::status_code
status_code(err) ==
    IF err.tag \in {"AuthHeaderNonUtf8", "AuthHeaderNotFound", "IllegalJwt",
                    "JwtIllegalType", "JwtMissingInitiatorClaim", "MissingBearer"}
    THEN 400
    ELSE IF err.tag = "JwtValidate" THEN 401
    ELSE wrapper_status_code(err.val)

\* variant: a claim that is neither a string nor a number gives an identity
\* with an empty id
InitiatorLenient(claims) ==
    LET claim == Get(claims, initiator_claim) IN
    IF claim = None THEN Err("JwtMissingInitiatorClaim")
    ELSE IF claim[1].type = "Number"
         THEN Ok([id |-> number_to_string(claim[1].num), name |-> "John Smith"])
    ELSE IF claim[1].type = "String"
         THEN Ok([id |-> claim[1].str, name |-> "John Smith"])
    ELSE Ok([id |-> "", name |-> "John Smith"])

\* the identity read from the initiator claim of validated claims
Initiator(claims) ==
    LET claim == Get(claims, initiator_claim) IN
    IF claim = None THEN Err("JwtMissingInitiatorClaim")
    ELSE IF claim[1].type = "Number"
         THEN Ok([id |-> number_to_string(claim[1].num), name |-> "John Smith"])
    ELSE IF claim[1].type = "String"
         THEN Ok([id |-> claim[1].str, name |-> "John Smith"])
    ELSE Err("JwtIllegalType")

\* what authorize does with a resolved key
Validated(raw, header, key, now) ==
    LET claims == decode(raw, key, Validation(header.alg), now) IN
    IF claims.tag # "Ok" THEN claims
    ELSE Initiator(claims.val)

\* variant: a server fault of the key resolver is answered as a failed
\* validation
ResolvedSwallowing(raw, header, key, now) ==
    IF key.tag # "Ok" THEN Ok(Err("JwtValidate"))
    ELSE IF key.val.tag # "Ok"
         THEN Ok([tag |-> "KeyResolve", val |-> key.val])
    ELSE Ok(Validated(raw, header, key.val.val, now))

\* what authorize does with the answer `key` of its key resolver: `?` hands
\* a server fault on, `err.into()` wraps a client fault
Resolved(raw, header, key, now) ==
    IF key.tag # "Ok" THEN Err("KeyResolve")
    ELSE IF key.val.tag # "Ok"
         THEN Ok([tag |-> "KeyResolve", val |-> key.val])
    ELSE Ok(Validated(raw, header, key.val.val, now))

\* JwkResolver::authorize with a key resolver that answers `key`
authorize_plugged(headers, key, now) ==
    LET raw == extract_jwt(headers) IN
    IF raw.tag # "Ok" THEN Ok(raw)
    ELSE LET header == decode_header(raw.val) IN
         IF header.tag # "Ok" THEN Ok(header)
         ELSE Resolved(raw.val, header.val, key, now)

\* variant: the initiator claim is read before the key is resolved and the
\* token validated
authorize_claim_first(headers, now) ==
    LET raw == extract_jwt(headers) IN
    IF raw.tag # "Ok" THEN Ok(raw)
    ELSE LET header == decode_header(raw.val) IN
         IF header.tag # "Ok" THEN Ok(header)
         ELSE IF Initiator(raw.val[2]).tag # "Ok" THEN Ok(Initiator(raw.val[2]))
         ELSE Resolved(raw.val, header.val, resolve_key(header.val), now)

\* JwkResolver::authorize: the outer level tells server faults, the inner
\* level client faults
authorize(headers, now) ==
    LET raw == extract_jwt(headers) IN
    IF raw.tag # "Ok" THEN Ok(raw)
    ELSE LET header == decode_header(raw.val) IN
         IF header.tag # "Ok" THEN Ok(header)
         ELSE Resolved(raw.val, header.val, resolve_key(header.val), now)

\* variant: a client fault does not stop the request
check_lenient(auth) ==
    IF auth.tag # "Ok" THEN Some(500)
    ELSE None

\* the body AxumServer::check answers a fault with: the text of its Error for
\* a server fault, the serialized trace of the Error for a client fault
check_body(auth) ==
    IF auth.tag # "Ok" THEN [text |-> "Failed to authorize incoming request", args |-> <<>>]
    ELSE [text |-> "trace", args |-> <<"Failed to authorize incoming request", auth.val.tag>>]

\* the status AxumServer::check answers with, None when it runs the handler
check(auth) ==
    IF auth.tag # "Ok" THEN Some(500)
    ELSE IF auth.val.tag # "Ok" THEN Some(status_code(auth.val))
    ELSE None

(***************************************************************************)
(* The requests clients send.                                              *)
(***************************************************************************)
\* the claims of a token: its expiry and, unless `who` is None, its initiator
ClaimsOf(exp, who) ==
    [name \in {"exp"} \cup (IF who = None THEN {"sub"} ELSE {initiator_claim}) |->
        IF name = "exp" THEN exp
        ELSE IF name = "sub" THEN JsonString("alice")
        ELSE who[1]]

\* an expiry that is still ahead, and one that is past
NotExpired == JsonNumber(MaxClock + 1)
Expired == JsonNumber(0)

\* the token a client makes of a header and claims by signing them
Token(header, claims, alg, secret) ==
    <<header, claims, Sign(alg, secret, <<header, claims>>)>>

\* tokens signed with a key of the store under the algorithm they name
GoodTokens ==
    { Token([alg |-> "HS256", kid |-> Some("A")],
            ClaimsOf(NotExpired, Some(JsonString("alice"))), "HS256", "sA"),
      Token([alg |-> "HS384", kid |-> Some("B")],
            ClaimsOf(NotExpired, Some(JsonNumber(42))), "HS384", "sB") }

\* tokens signed well whose initiator claim is of another type, or missing
OddClaimTokens ==
    { Token([alg |-> "HS256", kid |-> Some("A")], ClaimsOf(NotExpired, who), "HS256", "sA") :
        who \in {Some(JsonArray), Some(JsonObject), Some(JsonBool), Some(JsonNull), None} }

\* tokens that name a key the store lacks, or no key
KeylessTokens ==
    { Token([alg |-> "HS256", kid |-> kid],
            ClaimsOf(NotExpired, Some(JsonString("alice"))), "HS256", "sA") :
        kid \in {Some("Z"), None} }

\* tokens that do not pass validation: signed with another secret, signed
\* under another algorithm than the header names, naming an algorithm of
\* another family (signed with no secret, and signed with the secret under
\* an algorithm of its family), with claims replaced after signing, with
\* a signature of no algorithm, expired, and without expiry
BadTokens ==
    LET hA == [alg |-> "HS256", kid |-> Some("A")]
        alice == ClaimsOf(NotExpired, Some(JsonString("alice")))
        bob == ClaimsOf(NotExpired, Some(JsonString("bob")))
    IN  { Token(hA, alice, "HS256", "sB"),
          Token(hA, alice, "HS384", "sA"),
          Token([alg |-> "RS256", kid |-> Some("A")], alice, "RS256", ""),
          Token([alg |-> "RS256", kid |-> Some("B")], alice, "HS256", "sB"),
          <<hA, bob, Sign("HS256", "sA", <<hA, alice>>)>>,
          <<hA, bob, Sign("none", "", <<hA, bob>>)>>,
          Token(hA, ClaimsOf(Expired, Some(JsonString("alice"))), "HS256", "sA"),
          Token(hA, [name \in {initiator_claim} |-> JsonString("alice")], "HS256", "sA") }

\* texts that are no token: one part, and a header naming no algorithm of
\* the Algorithm enum
IllegalTokens ==
    { <<[raw |-> "abc"]>>,
      Token([alg |-> "none", kid |-> Some("A")],
            ClaimsOf(NotExpired, Some(JsonString("alice"))), "none", "") }

Tokens == GoodTokens \cup OddClaimTokens \cup KeylessTokens \cup BadTokens \cup IllegalTokens

\* the header map of a request with the given Authorization value
WithAuthorization(value) == [name \in {"authorization"} |-> value]

\* the header maps of the requests: no Authorization header, a value that
\* to_str() refuses, a value with another prefix, and `Bearer ` with a text
RequestHeaders ==
    { [name \in {} |-> <<>>],
      WithAuthorization([visible_ascii |-> FALSE,
                         text |-> <<"Bearer ", [raw |-> "abc"]>>]),
      WithAuthorization([visible_ascii |-> TRUE, text |-> <<"Token ", [raw |-> "abc"]>>]),
      WithAuthorization([visible_ascii |-> TRUE, text |-> <<"bearer ", [raw |-> "abc"]>>]) }
    \cup { WithAuthorization([visible_ascii |-> TRUE, text |-> <<"Bearer ">> \o raw]) :
             raw \in Tokens }

\* the eight routes of AxumServer::routes, each behind the `check` layer
Endpoints == {"add_version", "activate", "deactivate", "get_versions",
              "get_active_version", "get_activator", "get_version_metadata",
              "get_version_content"}

\* no request is being handled
NoRequest == [stage |-> "idle", endpoint |-> "none", headers |-> [name \in {} |-> <<>>],
              user |-> None, status |-> None, conn |-> None, ran |-> None,
              key |-> None, body |-> None, payload |-> None, socket |-> None]

\* how many connections can be open at a time
MaxSockets == 2

Sockets == 1..MaxSockets

\* serve_router has been called
NoListener == [state |-> "starting", ret |-> None, socket |-> None, logged |-> {},
               tasks |-> [socket \in Sockets |-> "none"]]

\* the endpoints whose handler downloads the body of the request
BodyEndpoints == {"add_version", "activate"}

\* bytes that are no JSON
NoJson(text) == [type |-> "NoJson", text |-> text]

\* the bytes of the JSON of an AddVersionRequest
AddVersionJson(sub) == [type |-> "Object", metadata |-> sub[1], contents |-> sub[2]]

\* the bytes of a JSON object with the one field `version`
VersionJson(version) == [type |-> "Object", version |-> version]

\* the body of a request: a stream that breaks or that ends, and its bytes
Body(stream, bytes) == [stream |-> stream, bytes |-> bytes]

\* the bytes requests are sent with: two texts that are no JSON, JSON of
\* another shape than the request of the endpoint, and the requests
BytesOf(endpoint) ==
    { NoJson("this is no json"), NoJson("<secret>42</secret>") }
    \cup (IF endpoint = "add_version"
          THEN { VersionJson(JsonNumber(1)) }
               \cup { AddVersionJson(sub) : sub \in UNION { Submissions(c) : c \in Conns } }
          ELSE { VersionJson(JsonString("1")) }
               \cup { VersionJson(JsonNumber(version)) : version \in VersionArgs })

\* the bodies a request to an endpoint is sent with
PayloadsOf(endpoint) ==
    IF endpoint \in BodyEndpoints
    THEN { Some(Body("broken", NoJson(""))) }
         \cup { Some(Body("whole", bytes)) : bytes \in BytesOf(endpoint) }
    ELSE {None}

(***************************************************************************)
(* State of a connection.                                                  *)
(***************************************************************************)
NoTables == [policies |-> <<>>, ledger |-> <<>>]
NoCall == [op |-> "none", arg |-> <<>>]
NoTx == [work |-> NoTables, seen |-> <<>>, out |-> <<>>, now |-> <<>>]
NoLast == [conn |-> "none", op |-> "none", arg |-> <<>>, ret |-> Ok(Unit),
           during |-> None]

\* connections with a mutating call in flight
InFlight == {c \in Conns : pc[c] # "idle"}

\* no use of EndpointPath::instantiated_path
NoClient == [endpoint |-> "none", args |-> <<>>, ret |-> None]

\* the number of connections of the pool looked at
MaxPool == 2

\* the time `pool.get()` waits for a connection, in ticks
ConnectionTimeout == 2

\* the tasks that serve requests at one time: one more than the pool has
\* connections
Tasks == 1..(MaxPool + 1)

\* a task that serves no request
NoTask == [pc |-> "idle", left |-> 0, connect |-> None, status |-> None,
           request |-> None]

Init ==
    /\ policies = <<>>
    /\ ledger = <<>>
    /\ clock = 1
    /\ lock = None
    /\ pc = [c \in Conns |-> "idle"]
    /\ call = [c \in Conns |-> NoCall]
    /\ tx = [c \in Conns |-> NoTx]
    /\ last = NoLast
    /\ issued = <<>>
    /\ during = [c \in Conns |-> None]
    /\ pointer = None
    /\ skew = 0
    /\ http = NoRequest
    /\ resolver = Started(ServerKeyFile)
    /\ pool = [t \in Tasks |-> NoTask]
    /\ listener = NoListener
    /\ client = NoClient

\* the call of c returns `ret`
Return(c, ret) ==
    /\ pc' = [pc EXCEPT ![c] = "idle"]
    /\ call' = [call EXCEPT ![c] = NoCall]
    /\ tx' = [tx EXCEPT ![c] = NoTx]
    /\ last' = [conn |-> c, op |-> call[c].op, arg |-> call[c].arg, ret |-> ret,
                during |-> during[c]]
    /\ during' = [d \in Conns |->
                    IF d = c THEN None
                    ELSE IF ret.tag = "Ok" /\ pc[d] # "idle" /\ call[d].op = call[c].op
                         THEN Some([conn |-> c, op |-> call[c].op,
                                    arg |-> call[c].arg, ret |-> ret])
                    ELSE during[d]]

\* variant: a failed transaction leaves what it wrote in the tables
RollbackKeepingWork(c, ret) ==
    /\ lock' = None
    /\ Return(c, ret)
    /\ policies' = tx[c].work.policies
    /\ ledger' = tx[c].work.ledger
    /\ UNCHANGED <<issued, pointer>>

\* the closure of c fails with `ret`: exclusive_transaction issues ROLLBACK and
\* returns `ret` when the statement works; when the statement fails too, its
\* error takes the place of `ret` and converts into ConnectionError::Transaction.
\* Nothing the closure wrote reaches the tables either way.
Rollback(c, ret) ==
    /\ lock' = None
    /\ \E eng \in EngineOutcomes :
          Return(c, IF eng = "ok" THEN ret ELSE Err("Transaction"))
    /\ UNCHANGED <<policies, ledger, issued, pointer>>

(***************************************************************************)
(* Calls of the mutating operations.                                       *)
(***************************************************************************)
\* no returned value is waiting for its caller
Ready == last.conn = "none"

CanInvoke(c) ==
    /\ Ready
    /\ pc[c] = "idle"
    /\ clock + skew + Cardinality(InFlight) <= MaxClock

Invoke(c, op, arg) ==
    /\ pc' = [pc EXCEPT ![c] = "called"]
    /\ call' = [call EXCEPT ![c] = [op |-> op, arg |-> arg]]
    /\ last' = NoLast
    /\ UNCHANGED <<policies, ledger, clock, lock, tx, issued, during, pointer, skew, http, resolver, pool, client, listener>>

\* DatabaseConnection::add_version is called on connection c
CallAddVersion(c) ==
    /\ CanInvoke(c)
    /\ Len(policies) + Cardinality({d \in InFlight : call[d].op = "add_version"})
         < MaxPolicies
    /\ \E sub \in Submissions(c) : Invoke(c, "add_version", sub)

\* DatabaseConnection::activate is called on connection c
CallActivate(c) ==
    /\ CanInvoke(c)
    /\ \E version \in VersionArgs : Invoke(c, "activate", <<version>>)

\* DatabaseConnection::deactivate is called on connection c
CallDeactivate(c) ==
    /\ CanInvoke(c)
    /\ Invoke(c, "deactivate", <<>>)

(***************************************************************************)
(* exclusive_transaction: BEGIN EXCLUSIVE, the closure, COMMIT or ROLLBACK *)
(***************************************************************************)
\* BEGIN EXCLUSIVE succeeds only while no connection holds the lock
CanBegin(c, eng) == eng = "ok" /\ lock = None

TxBegin(c) ==
    /\ Ready
    /\ pc[c] = "called"
    /\ \E eng \in EngineOutcomes :
          IF CanBegin(c, eng) THEN
              /\ lock' = Some(c)
              /\ pc' = [pc EXCEPT ![c] = "read"]
              /\ tx' = [tx EXCEPT ![c] =
                          [NoTx EXCEPT !.work = [policies |-> policies, ledger |-> ledger]]]
              /\ last' = NoLast
              /\ UNCHANGED <<policies, ledger, clock, call, issued, during, pointer, skew, http, resolver, pool, client, listener>>
          ELSE
              /\ Return(c, Err("Transaction"))
              /\ UNCHANGED <<policies, ledger, clock, lock, issued, pointer, skew, http, resolver, pool, client, listener>>

\* what the history records when the call of c has returned Ok
IssuedAfter(c) ==
    IF call[c].op = "add_version"
    THEN Append(issued, [ version  |-> tx[c].out,
                          attached |-> call[c].arg[1],
                          content  |-> call[c].arg[2],
                          creator  |-> ConnUser(c),
                          created  |-> tx[c].now[1] ])
    ELSE issued

\* the active version and its activator as the calls that returned Ok define
\* them: activate(v) by U makes (v, U) current unless v is current already,
\* deactivate() leaves nothing current
PointerAfter(c) ==
    IF call[c].op = "activate" THEN
        IF pointer # None /\ pointer[1].version = call[c].arg[1] THEN pointer
        ELSE Some([version |-> call[c].arg[1], by |-> ConnUser(c)])
    ELSE IF call[c].op = "deactivate" THEN None
    ELSE pointer

\* the closure returned Ok(out): COMMIT installs the working copy
TxCommit(c) ==
    /\ Ready
    /\ pc[c] = "commit"
    /\ \E eng \in EngineOutcomes :
          IF eng = "ok" THEN
              /\ policies' = tx[c].work.policies
              /\ ledger' = tx[c].work.ledger
              /\ lock' = None
              /\ issued' = IssuedAfter(c)
              /\ pointer' = PointerAfter(c)
              /\ Return(c, Ok(tx[c].out))
              /\ UNCHANGED <<clock, skew, http, resolver, pool, client, listener>>
          ELSE
              /\ Rollback(c, Err("Transaction"))
              /\ UNCHANGED <<clock, skew, http, resolver, pool, client, listener>>

\* the closure of c ended with `body` on `table`: Ok waits for COMMIT with the
\* table written in the working copy, Err rolls back.  A closure that read
\* Utc::now() got `now`, the instant the wall clock showed; time has passed
\* when the clock is read next, unless SetClockBack takes it back to that
\* instant or to an earlier one.
Closed(c, table, body, now) ==
    /\ clock' = IF body.timed THEN clock + 1 ELSE clock
    /\ UNCHANGED <<skew, http, resolver, pool, client, listener>>
    /\ IF body.ret.tag = "Ok" THEN
           /\ pc' = [pc EXCEPT ![c] = "commit"]
           /\ tx' = [tx EXCEPT ![c].work[table] = body.ret.val.tbl,
                               ![c].out = body.ret.val.out,
                               ![c].now = IF body.timed THEN Some(now) ELSE None]
           /\ last' = NoLast
           /\ UNCHANGED <<lock, call, issued, during, pointer>>
       ELSE
           Rollback(c, body.ret)

\* the select of the closure of c answered `seen`: Ok goes on, Err rolls back
Selected(c, seen) ==
    IF seen.tag = "Ok" THEN
        /\ pc' = [pc EXCEPT ![c] = "write"]
        /\ tx' = [tx EXCEPT ![c].seen = Some(seen.val)]
        /\ last' = NoLast
        /\ UNCHANGED <<policies, ledger, clock, lock, call, issued, during, pointer, skew, http, resolver, pool, client, listener>>
    ELSE
        /\ Rollback(c, seen)
        /\ UNCHANGED <<clock, skew, http, resolver, pool, client, listener>>

(***************************************************************************)
(* The closure of add_version.                                             *)
(***************************************************************************)
\* `policies.select(version).order_by(created_at.desc()).limit(1).load(conn)`
AddVersionLatest(c) ==
    /\ Ready
    /\ pc[c] = "read"
    /\ call[c].op = "add_version"
    /\ \E eng \in LoadOutcomes, rows \in LoadNewest(tx[c].work.policies) :
          Selected(c, LatestVersion(Load(eng, rows)))

\* serialize the content, build the SqlitePolicy and insert it
AddVersionInsert(c) ==
    /\ Ready
    /\ pc[c] = "write"
    /\ call[c].op = "add_version"
    /\ \E eng \in EngineOutcomes :
          LET now == UtcNow(clock)
              body == AddVersionBody(tx[c].work.policies, tx[c].seen[1],
                                     call[c].arg[1], call[c].arg[2], ConnUser(c), now, eng)
          IN  /\ Closed(c, "policies", body, now)
              /\ UNCHANGED <<policies, ledger>>

(***************************************************************************)
(* The closure of activate.                                                *)
(***************************************************************************)
\* `let av = Self::_get_active_version(&self.path, conn)?`
ActivateGetActive(c) ==
    /\ Ready
    /\ pc[c] = "read"
    /\ call[c].op = "activate"
    /\ \E eng \in LoadOutcomes, rows \in LoadActive(tx[c].work.ledger) :
          Selected(c, _get_active_version(Load(eng, rows)))

\* return early when the version is active already, else insert a new event
ActivateInsert(c) ==
    /\ Ready
    /\ pc[c] = "write"
    /\ call[c].op = "activate"
    /\ \E eng \in EngineOutcomes :
          LET now == UtcNow(clock)
              body == ActivateBody(tx[c].work.ledger, tx[c].seen[1], call[c].arg[1],
                                   ConnUser(c), now, eng)
          IN  /\ Closed(c, "ledger", body, now)
              /\ UNCHANGED <<policies, ledger>>

(***************************************************************************)
(* The closure of deactivate.                                              *)
(***************************************************************************)
\* `let av = match Self::_get_active_version(&self.path, conn)?`
DeactivateGetActive(c) ==
    /\ Ready
    /\ pc[c] = "read"
    /\ call[c].op = "deactivate"
    /\ \E eng \in LoadOutcomes, rows \in LoadActive(tx[c].work.ledger) :
          Selected(c, _get_active_version(Load(eng, rows)))

\* return early when nothing is active, else stamp the deactivation
DeactivateUpdate(c) ==
    /\ Ready
    /\ pc[c] = "write"
    /\ call[c].op = "deactivate"
    /\ \E eng \in EngineOutcomes :
          LET now == UtcNow(clock)
              body == DeactivateBody(tx[c].work.ledger, tx[c].seen[1], ConnUser(c), now, eng)
          IN  /\ Closed(c, "ledger", body, now)
              /\ UNCHANGED <<policies, ledger>>

(***************************************************************************)
(* The read-only operations: one statement on the committed tables.  They  *)
(* change no table; their results are the functions above, applied to what *)
(* the statement loads.                                                    *)
(***************************************************************************)
ResultTags == {"Ok", "GetActiveVersion", "GetVersion", "ContentDeserialize"}

\* the results get_active_version() can return in the current state
ActiveVersionResults(eng) ==
    { _get_active_version(Load(eng, rows)) : rows \in LoadActive(ledger) }

\* the results get_activator() can return in the current state
ActivatorResults(eng) ==
    { get_activator(Load(eng, rows)) : rows \in LoadActive(ledger) }

\* the results get_version_metadata(version) can return in the current state
VersionMetadataResults(version, eng) ==
    { get_version_metadata(Load(eng, rows)) : rows \in LoadVersion(policies, version) }

\* the results get_version_content(version) can return in the current state
VersionContentResults(version, eng) ==
    { get_version_content(Load(eng, rows)) : rows \in LoadVersion(policies, version) }

\* variant: the row loaded last is left out of the map
get_versions_but_last(loaded) ==
    IF loaded.tag = "Ok" THEN
        Ok([ v \in {loaded.val[i].version : i \in 1..(Len(loaded.val) - 1)} |->
               MetadataOf(loaded.val[CHOOSE i \in 1..(Len(loaded.val) - 1) :
                                         loaded.val[i].version = v]) ])
    ELSE Err("GetVersions")

\* SQLiteConnection::get_versions, applied to the loaded rows
get_versions(loaded) ==
    IF loaded.tag = "Ok" THEN
        Ok([ v \in {loaded.val[i].version : i \in DOMAIN loaded.val} |->
               MetadataOf(loaded.val[CHOOSE i \in DOMAIN loaded.val :
                                         /\ loaded.val[i].version = v
                                         /\ \A j \in DOMAIN loaded.val :
                                               loaded.val[j].version = v => j <= i]) ])
    ELSE Err("GetVersions")

\* the results get_versions() can return in the current state
VersionsResults(eng) == { get_versions(Load(eng, policies)) }

GetVersions ==
    /\ Ready
    /\ \A eng \in EngineOutcomes : \A ret \in VersionsResults(eng) :
          ret.tag \in ResultTags \cup {"GetVersions"}
    /\ UNCHANGED vars

GetActiveVersion ==
    /\ Ready
    /\ \A eng \in LoadOutcomes : \A ret \in ActiveVersionResults(eng) :
          ret.tag \in ResultTags
    /\ UNCHANGED vars

GetActivator ==
    /\ Ready
    /\ \A eng \in LoadOutcomes : \A ret \in ActivatorResults(eng) :
          ret.tag \in ResultTags
    /\ UNCHANGED vars

GetVersionMetadata ==
    /\ Ready
    /\ \A version \in QueryVersions, eng \in LoadOutcomes :
          \A ret \in VersionMetadataResults(version, eng) : ret.tag \in ResultTags
    /\ UNCHANGED vars

GetVersionContent ==
    /\ Ready
    /\ \A version \in QueryVersions, eng \in LoadOutcomes :
          \A ret \in VersionContentResults(version, eng) : ret.tag \in ResultTags
    /\ UNCHANGED vars

\* the caller takes the value its call returned
Observe ==
    /\ ~Ready
    /\ last' = NoLast
    /\ UNCHANGED <<policies, ledger, clock, lock, pc, call, tx, issued, during, pointer,
                   skew, http, resolver, pool, client, listener>>

(***************************************************************************)
(* Utc::now() reads the wall clock, which an administrator or a time       *)
(* service can set back between two steps: the next read then returns an   *)
(* instant equal to or earlier than one read before.  `skew` adds up by    *)
(* how much the clock was set back, so clock + skew counts the reads.      *)
(***************************************************************************)
SetClockBack ==
    /\ Ready
    /\ \E t \in 1..(clock - 1) :
          /\ clock' = t
          /\ skew' = skew + (clock - t)
    /\ UNCHANGED <<policies, ledger, lock, pc, call, tx, last, issued, during, pointer,
                   http, resolver, pool, client, listener>>

(***************************************************************************)
(* Specification.  A returned value is taken by its caller before the next *)
(* step is looked at, so `last` holds one return at a time.                *)
(***************************************************************************)
Next ==
    \/ \E c \in Conns : CallAddVersion(c)
    \/ \E c \in Conns : CallActivate(c)
    \/ \E c \in Conns : CallDeactivate(c)
    \/ \E c \in Conns : TxBegin(c)
    \/ \E c \in Conns : AddVersionLatest(c)
    \/ \E c \in Conns : AddVersionInsert(c)
    \/ \E c \in Conns : ActivateGetActive(c)
    \/ \E c \in Conns : ActivateInsert(c)
    \/ \E c \in Conns : DeactivateGetActive(c)
    \/ \E c \in Conns : DeactivateUpdate(c)
    \/ \E c \in Conns : TxCommit(c)
    \/ GetVersions
    \/ GetActiveVersion
    \/ GetActivator
    \/ GetVersionMetadata
    \/ GetVersionContent
    \/ Observe
    \/ SetClockBack

Spec == Init /\ [][Next]_vars

(***************************************************************************)
(* Cancellation.  A request is cancelled by dropping its future, which can *)
(* happen only where the future is suspended.  The future of a mutating    *)
(* call is `async move { block_in_place(|| exclusive_transaction(..)) }`:  *)
(* it holds no await, so once it is polled the transaction runs from BEGIN *)
(* to COMMIT or ROLLBACK within that poll.  SpecCancel is Spec with        *)
(* requests that are dropped.                                              *)
(***************************************************************************)
\* variant: the future can be dropped wherever the call is
CanCancelAnywhere(c) == pc[c] # "idle"

\* the future of the call of c can be dropped: it has not been polled yet
CanCancel(c) == pc[c] = "called"

\* the future of the call of c is dropped; `last` records the dropped call,
\* which hands its caller no value
Cancel(c) ==
    /\ Ready
    /\ CanCancel(c)
    /\ pc' = [pc EXCEPT ![c] = "idle"]
    /\ call' = [call EXCEPT ![c] = NoCall]
    /\ tx' = [tx EXCEPT ![c] = NoTx]
    /\ lock' = IF lock = Some(c) THEN None ELSE lock
    /\ during' = [during EXCEPT ![c] = None]
    /\ last' = [conn |-> c, op |-> call[c].op, arg |-> call[c].arg,
                ret |-> Err("Cancelled"), during |-> during[c]]
    /\ UNCHANGED <<policies, ledger, clock, issued, pointer, skew, http, resolver, pool,
                   client, listener>>

NextCancel ==
    \/ Next
    \/ \E c \in Conns : Cancel(c)

SpecCancel == Init /\ [][NextCancel]_vars

(***************************************************************************)
(* A panic in the closure of a mutating call.  `block_in_place` runs the   *)
(* closure on the thread of the calling task, so the panic unwinds through *)
(* exclusive_transaction, which drops the transaction, and through the     *)
(* caller of the operation; no JoinError is made and                       *)
(* ConnectionError::SpawnBlocking is never built.  SpecCrash is Spec with  *)
(* closures that panic.                                                    *)
(***************************************************************************)
\* the closure of the call of c panics; `last` records the unwinding, which
\* hands the caller no value
Crash(c) ==
    /\ Ready
    /\ pc[c] \in {"read", "write"}
    /\ pc' = [pc EXCEPT ![c] = "idle"]
    /\ call' = [call EXCEPT ![c] = NoCall]
    /\ tx' = [tx EXCEPT ![c] = NoTx]
    /\ lock' = None
    /\ during' = [during EXCEPT ![c] = None]
    /\ last' = [conn |-> c, op |-> call[c].op, arg |-> call[c].arg,
                ret |-> Err("Panic"), during |-> during[c]]
    /\ UNCHANGED <<policies, ledger, clock, issued, pointer, skew, http, resolver, pool,
                   client, listener>>

NextCrash ==
    \/ Next
    \/ \E c \in Conns : Crash(c)

SpecCrash == Init /\ [][NextCrash]_vars

(***************************************************************************)
(* The server: a request goes through the `check` layer, and the handler   *)
(* of its route runs only when the layer lets it through.  A handler opens *)
(* a connection for the identity the layer attached and runs one           *)
(* operation on it; the operation is taken as a whole, from BEGIN to       *)
(* COMMIT.                                                                 *)
(***************************************************************************)
\* the transaction ended before its closure's body changed anything
RolledBack(tbl, ret) == [ret |-> ret, tbl |-> tbl, timed |-> FALSE]

\* the ways a transaction ends once its closure returned `body`: Ok commits, or
\* fails to; Err rolls back and is returned, unless ROLLBACK fails as well and
\* its error is returned as ConnectionError::Transaction
Committed(tbl, body) ==
    IF body.ret.tag = "Ok"
    THEN { [ret |-> Ok(body.ret.val.out), tbl |-> body.ret.val.tbl, timed |-> body.timed],
           [ret |-> Err("Transaction"), tbl |-> tbl, timed |-> body.timed] }
    ELSE { [ret |-> body.ret, tbl |-> tbl, timed |-> body.timed],
           [ret |-> Err("Transaction"), tbl |-> tbl, timed |-> body.timed] }

\* SQLiteConnection::add_version on table `policies`, by `user`
add_version(tbl, user, metadata, content, now) ==
    {RolledBack(tbl, Err("Transaction"))} \cup
    UNION { IF seen.tag = "Ok"
            THEN UNION { Committed(tbl, AddVersionBody(tbl, seen.val, metadata, content,
                                                       user, now, eng)) :
                           eng \in EngineOutcomes }
            ELSE {RolledBack(tbl, seen)} :
            seen \in { LatestVersion(Load(eng, rows)) :
                         eng \in LoadOutcomes, rows \in LoadNewest(tbl) } }

\* SQLiteConnection::activate on table `active_version`, by `user`
activate(tbl, user, version, now) ==
    {RolledBack(tbl, Err("Transaction"))} \cup
    UNION { IF seen.tag = "Ok"
            THEN UNION { Committed(tbl, ActivateBody(tbl, seen.val, version, user, now, eng)) :
                           eng \in EngineOutcomes }
            ELSE {RolledBack(tbl, seen)} :
            seen \in { _get_active_version(Load(eng, rows)) :
                         eng \in LoadOutcomes, rows \in LoadActive(tbl) } }

\* SQLiteConnection::deactivate on table `active_version`, by `user`
deactivate(tbl, user, now) ==
    {RolledBack(tbl, Err("Transaction"))} \cup
    UNION { IF seen.tag = "Ok"
            THEN UNION { Committed(tbl, DeactivateBody(tbl, seen.val, user, now, eng)) :
                           eng \in EngineOutcomes }
            ELSE {RolledBack(tbl, seen)} :
            seen \in { _get_active_version(Load(eng, rows)) :
                         eng \in LoadOutcomes, rows \in LoadActive(tbl) } }

\* a request arrives
Receive ==
    /\ http.stage = "idle"
    /\ clock + skew <= MaxServerClock
    /\ \E endpoint \in Endpoints, headers \in RequestHeaders :
          /\ endpoint = "add_version" => Len(policies) < MaxPolicies
          /\ \E payload \in PayloadsOf(endpoint) :
                http' = [NoRequest EXCEPT !.stage = "received", !.endpoint = endpoint,
                                          !.headers = headers, !.payload = payload]
    /\ UNCHANGED <<policies, ledger, clock, lock, pc, call, tx, last, issued, during,
                   pointer, skew, resolver, pool, client, listener>>

\* AxumServer::check: authorize the headers; attach the identity and run the
\* handler, or answer with the status of the fault
Check ==
    /\ http.stage = "received"
    /\ LET auth == authorize(http.headers, clock)
           status == check(auth)
       IN  http' = IF status = None
                   THEN [http EXCEPT !.stage = "handler", !.user = Some(auth.val.val)]
                   ELSE [http EXCEPT !.stage = "responded", !.status = status,
                                     !.body = Some(check_body(auth))]
    /\ UNCHANGED <<policies, ledger, clock, lock, pc, call, tx, last, issued, during,
                   pointer, skew, resolver, pool, client, listener>>

\* the handler of `endpoint` has been given the request with its identity
Handling(endpoint) ==
    /\ http.stage = "handler"
    /\ http.endpoint = endpoint

\* a response body: a text with the values formatted into it
Format(text, args) == [text |-> text, args |-> args]

\* `String::new()`
Empty == Format("", <<>>)

\* serde_json::to_string of a response that carries `value`
Json(value) == Format("json", <<value>>)

\* the text of the message of the handler of `endpoint` when connecting or
\* the operation fails
HandlerText(endpoint) ==
    IF endpoint = "add_version" THEN "Failed to add policy {}"
    ELSE IF endpoint = "activate" THEN "Failed to activate policy {}"
    ELSE IF endpoint \in {"deactivate", "get_versions"}
         THEN "Failed to deactivate any active policy"
    ELSE IF endpoint = "get_active_version" THEN "Failed to get active policy"
    ELSE IF endpoint = "get_activator" THEN "Failed to get activator"
    ELSE IF endpoint = "get_version_metadata" THEN "Failed to get policy metadata"
    ELSE "Failed to get policy content"

\* the message of the handler of `endpoint` when connecting or the operation
\* with `arg` fails
HandlerMessage(endpoint, arg) ==
    IF endpoint = "add_version" THEN Format(HandlerText(endpoint), <<arg[1].name>>)
    ELSE IF endpoint = "activate" THEN Format(HandlerText(endpoint), arg)
    ELSE Format(HandlerText(endpoint), <<>>)

\* the handler answers `status` and `body` without opening a connection
Answered(status, body) ==
    /\ http' = [http EXCEPT !.stage = "responded", !.status = Some(status),
                            !.body = Some(body)]
    /\ UNCHANGED <<policies, ledger, clock, lock, pc, call, tx, last, issued, during,
                   pointer, skew, resolver, pool, client, listener>>

\* the handler answers `status` and `body` after `op(arg)` returned `ret` on
\* the connection it opened for the identity of the request
Served(status, body, op, arg, ret) ==
    http' = [http EXCEPT !.stage = "responded", !.status = Some(status),
                         !.body = Some(body),
                         !.conn = http.user,
                         !.ran = Some([op |-> op, arg |-> arg, ret |-> ret])]

\* the status the handler of a mutation answers with
MutatedStatus(out) == IF out.ret.tag # "Ok" THEN 500 ELSE 200

\* the body the handler of a mutation answers with
MutatedBody(op, arg, out) ==
    IF out.ret.tag # "Ok" THEN HandlerMessage(op, arg)
    ELSE IF op = "add_version" THEN Json([version |-> out.ret.val])
    ELSE Empty

\* the handler of a mutation answers 200, or 500 when the operation failed
Mutated(op, arg, out) ==
    /\ Served(MutatedStatus(out), MutatedBody(op, arg, out), op, arg, out.ret)
    /\ clock' = IF out.timed THEN clock + 1 ELSE clock
    /\ UNCHANGED <<lock, pc, call, tx, last, issued, during, pointer, skew, resolver, pool, client, listener>>

\* serde_json::to_string of the response of a read: only a content can fail
\* to serialize
Serialized(op, ret) ==
    IF op = "get_version_content" /\ ret.val # None THEN to_string(ret.val[1])
    ELSE Ok(ret.val)

\* variant: a read that finds nothing is answered as a failure of the handler
FetchedAbsentIsFault(op, arg, ret, absent_is_404) ==
    /\ http' = [http EXCEPT
                  !.stage = "responded",
                  !.status = IF ret.tag = "Ok" /\ ~(absent_is_404 /\ ret.val = None)
                             THEN Some(200) ELSE Some(500),
                  !.body = IF ret.tag = "Ok" /\ ~(absent_is_404 /\ ret.val = None)
                           THEN Some([text |-> "json", args |-> <<ret.val>>])
                           ELSE Some([text |-> "Failed", args |-> <<>>]),
                  !.conn = http.user,
                  !.ran = Some([op |-> op, arg |-> arg, ret |-> ret])]
    /\ UNCHANGED <<policies, ledger, clock, lock, pc, call, tx, last, issued, during,
                   pointer, skew, resolver, pool, client, listener>>

\* the status the handler of a read answers with: 200 with the value, 404
\* when `absent_is_404` and there is none, 500 when the operation or the
\* serialization failed
FetchedStatus(op, ret, absent_is_404) ==
    IF ret.tag # "Ok" THEN 500
    ELSE IF absent_is_404 /\ ret.val = None THEN 404
    ELSE IF Serialized(op, ret).tag # "Ok" THEN 500
    ELSE 200

\* the body the handler of a read answers with
FetchedBody(op, arg, ret, absent_is_404) ==
    IF ret.tag # "Ok" THEN HandlerMessage(op, arg)
    ELSE IF absent_is_404 /\ ret.val = None THEN Empty
    ELSE IF Serialized(op, ret).tag # "Ok" THEN Format("Failed to serialize result", <<>>)
    ELSE Json(Serialized(op, ret).val)

\* the handler of a read answers
Fetched(op, arg, ret, absent_is_404) ==
    /\ Served(FetchedStatus(op, ret, absent_is_404),
              FetchedBody(op, arg, ret, absent_is_404), op, arg, ret)
    /\ UNCHANGED <<policies, ledger, clock, lock, pc, call, tx, last, issued, during,
                   pointer, skew, resolver, pool, client, listener>>

\* the text serde_json's error has for bytes that are no request of the
\* endpoint (its backquotes written as quotes)
serde_error(endpoint, bytes) ==
    IF bytes.type = "NoJson"
    THEN IF bytes.text = "this is no json" THEN "expected ident at line 1 column 2"
         ELSE "expected value at line 1 column 1"
    ELSE IF endpoint = "add_version" THEN "missing field 'metadata' at line 1 column 14"
    ELSE "invalid type: string \"1\", expected u64 at line 1 column 15"

\* serde_json::from_slice::<AddVersionRequest> and ::<ActivateRequest>: the
\* arguments of the operation, or the error
from_slice(endpoint, bytes) ==
    IF bytes.type = "NoJson" THEN Err(serde_error(endpoint, bytes))
    ELSE IF endpoint = "add_version"
         THEN IF {"metadata", "contents"} \subseteq DOMAIN bytes
              THEN Ok(<<bytes.metadata, bytes.contents>>)
              ELSE Err(serde_error(endpoint, bytes))
    ELSE IF "version" \in DOMAIN bytes /\ bytes.version.type = "Number"
         THEN Ok(<<bytes.version.num>>)
    ELSE Err(serde_error(endpoint, bytes))

\* `trace!((msg), err)`: the message and what caused it
Trace(msg, err) == Format("{}\n\nCaused by:\n o {}\n\n", <<msg, err>>)

\* `(0..80).map(|_| '-').collect::<String>()`
Dashes == "--------------------------------------------------------------------------------"

\* download_request: the parsed request, or the status and the body to
\* answer with: 500 when the stream breaks, 400 with the error and the bytes
\* when they are no request of the endpoint
download_request(endpoint, request) ==
    IF request.stream = "broken"
    THEN [tag |-> "Err", val |-> <<500, Format("Failed to download request body", <<>>)>>]
    ELSE LET req == from_slice(endpoint, request.bytes) IN
         IF req.tag = "Ok" THEN req
         ELSE [tag |-> "Err",
               val |-> <<400, Format("{}Raw body:\n{}\n{}\n{}\n",
                                     <<Trace("Failed to deserialize request body", req.tag),
                                       Dashes, request.bytes, Dashes>>)>>]

\* variant: the body is found unparsable after the connection was opened
DownloadFailsConnected ==
    LET req == download_request(http.endpoint, http.payload[1]) IN
    /\ req.tag # "Ok"
    /\ http' = [http EXCEPT !.stage = "responded", !.status = Some(req.val[1]),
                            !.body = Some(req.val[2]),
                            !.conn = IF req.val[1] = 400 THEN http.user ELSE None]
    /\ UNCHANGED <<policies, ledger, clock, lock, pc, call, tx, last, issued, during,
                   pointer, skew, resolver, pool, client, listener>>

\* `Err(res) => return res`: download_request fails and the handler answers
\* with what it returned
DownloadFails ==
    LET req == download_request(http.endpoint, http.payload[1]) IN
    /\ req.tag # "Ok"
    /\ Answered(req.val[1], req.val[2])

\* download_request returns the parsed request
Downloaded == download_request(http.endpoint, http.payload[1]).tag = "Ok"

\* `Ok(req) => req`: the arguments the request gives
Request == download_request(http.endpoint, http.payload[1]).val

\* `this.data.connect(&auth)` fails: no connection of the pool
ConnectFails(endpoint, arg) == Answered(500, HandlerMessage(endpoint, arg))

\* POST /v2/policies
PathAddVersion ==
    /\ Handling("add_version")
    /\ \/ DownloadFails
       \/ /\ Downloaded
          /\ \/ ConnectFails("add_version", Request)
             \/ \E out \in add_version(policies, http.user[1], Request[1], Request[2],
                                       UtcNow(clock)) :
                   /\ policies' = out.tbl
                   /\ UNCHANGED ledger
                   /\ Mutated("add_version", Request, out)

\* PUT /v2/policies/active
PathActivate ==
    /\ Handling("activate")
    /\ \/ DownloadFails
       \/ /\ Downloaded
          /\ \/ ConnectFails("activate", Request)
             \/ \E out \in activate(ledger, http.user[1], Request[1], UtcNow(clock)) :
                   /\ ledger' = out.tbl
                   /\ UNCHANGED policies
                   /\ Mutated("activate", Request, out)

\* DELETE /v2/policies/active
PathDeactivate ==
    /\ Handling("deactivate")
    /\ \/ ConnectFails("deactivate", <<>>)
       \/ \E out \in deactivate(ledger, http.user[1], UtcNow(clock)) :
             /\ ledger' = out.tbl
             /\ UNCHANGED policies
             /\ Mutated("deactivate", <<>>, out)

\* GET /v2/policies
PathGetVersions ==
    /\ Handling("get_versions")
    /\ \/ ConnectFails("get_versions", <<>>)
       \/ \E eng \in EngineOutcomes : \E ret \in VersionsResults(eng) :
             Fetched("get_versions", <<>>, ret, FALSE)

\* GET /v2/policies/active
PathGetActiveVersion ==
    /\ Handling("get_active_version")
    /\ \/ ConnectFails("get_active_version", <<>>)
       \/ \E eng \in LoadOutcomes : \E ret \in ActiveVersionResults(eng) :
             Fetched("get_active_version", <<>>, ret, FALSE)

\* GET /v2/policies/active/activator
PathGetActivator ==
    /\ Handling("get_activator")
    /\ \/ ConnectFails("get_activator", <<>>)
       \/ \E eng \in LoadOutcomes : \E ret \in ActivatorResults(eng) :
             Fetched("get_activator", <<>>, ret, FALSE)

\* GET /v2/policies/:version
PathGetVersionMetadata ==
    /\ Handling("get_version_metadata")
    /\ \E version \in QueryVersions :
       \/ ConnectFails("get_version_metadata", <<version>>)
       \/ \E eng \in LoadOutcomes : \E ret \in VersionMetadataResults(version, eng) :
             Fetched("get_version_metadata", <<version>>, ret, TRUE)

\* GET /v2/policies/:version/content
PathGetVersionContent ==
    /\ Handling("get_version_content")
    /\ \E version \in QueryVersions :
       \/ ConnectFails("get_version_content", <<version>>)
       \/ \E eng \in LoadOutcomes : \E ret \in VersionContentResults(version, eng) :
             Fetched("get_version_content", <<version>>, ret, TRUE)

\* the response is sent
Respond ==
    /\ http.stage = "responded"
    /\ http' = NoRequest
    /\ UNCHANGED <<policies, ledger, clock, lock, pc, call, tx, last, issued, during,
                   pointer, skew, resolver, pool, client, listener>>

NextServer ==
    \/ Receive
    \/ Check
    \/ PathAddVersion
    \/ PathActivate
    \/ PathDeactivate
    \/ PathGetVersions
    \/ PathGetActiveVersion
    \/ PathGetActivator
    \/ PathGetVersionMetadata
    \/ PathGetVersionContent
    \/ Respond
    \/ SetClockBack

SpecServer == Init /\ [][NextServer]_vars

(***************************************************************************)
(* The server with another key resolver plugged into JwkResolver: what the *)
(* resolver answers for a token header is up to it.                        *)
(***************************************************************************)
\* the answers of a key resolver: a server fault, client faults, keys
PluggedAnswers ==
    {Err("Unreachable")}
    \cup { Ok(Err(fault)) : fault \in {"HeaderKidNotFound", "UnknownKeyId", "KeyRevoked",
                                        "TooManyRequests"} }
    \cup { Ok(Ok(from_secret(secret))) : secret \in {"sA", "sB"} }

\* AxumServer::check with the plugged resolver: as Check, and the request
\* keeps what the resolver answered when authorize asked it
CheckPlugged ==
    /\ http.stage = "received"
    /\ \E key \in PluggedAnswers :
          LET auth == authorize_plugged(http.headers, key, clock)
              status == check(auth)
              asked == /\ extract_jwt(http.headers).tag = "Ok"
                       /\ decode_header(extract_jwt(http.headers).val).tag = "Ok"
              seen == [http EXCEPT !.key = IF asked THEN Some(key) ELSE None]
          IN  http' = IF status = None
                      THEN [seen EXCEPT !.stage = "handler", !.user = Some(auth.val.val)]
                      ELSE [seen EXCEPT !.stage = "responded", !.status = status,
                                        !.body = Some(check_body(auth))]
    /\ UNCHANGED <<policies, ledger, clock, lock, pc, call, tx, last, issued, during,
                   pointer, skew, resolver, pool, client, listener>>

\* the layer on its own: a request it lets through is with its handler,
\* which is the one of the server above
NextPlugged ==
    \/ Receive
    \/ CheckPlugged
    \/ Respond

SpecPlugged == Init /\ [][NextPlugged]_vars

\* the server with a plugged resolver and every handler
NextPluggedServer ==
    \/ NextPlugged
    \/ PathAddVersion \/ PathActivate \/ PathDeactivate
    \/ PathGetVersions \/ PathGetActiveVersion \/ PathGetActivator
    \/ PathGetVersionMetadata \/ PathGetVersionContent
    \/ SetClockBack

SpecPluggedServer == Init /\ [][NextPluggedServer]_vars

(***************************************************************************)
(* Requests with more than one fault, to tell which fault authorize        *)
(* answers with.  SpecOrder is the check layer alone, given these requests *)
(* and the ones above.                                                     *)
(***************************************************************************)
\* tokens with several faults: an unknown key id or none with a signature
\* of another secret and with claims that are expired or lack the
\* initiator; a stored key id with a bad signature and no initiator claim,
\* or with a good signature, a past expiry and an initiator of another
\* type; a header of no known algorithm naming an unknown key id
FaultyTokens ==
    LET noone == ClaimsOf(NotExpired, None)
        late == ClaimsOf(Expired, Some(JsonArray))
    IN  { Token([alg |-> "HS256", kid |-> kid], claims, "HS256", "bad") :
            kid \in {Some("Z"), None, Some("A")}, claims \in {noone, late} }
        \cup { Token([alg |-> "HS256", kid |-> Some("A")], late, "HS256", "sA"),
               Token([alg |-> "none", kid |-> Some("Z")], noone, "none", "bad") }

\* header maps with several faults: the tokens above, and a value that
\* to_str() refuses and that has another prefix and no token
FaultyHeaders ==
    { WithAuthorization([visible_ascii |-> FALSE, text |-> <<"Token ", [raw |-> "abc"]>>]) }
    \cup { WithAuthorization([visible_ascii |-> TRUE, text |-> <<"Bearer ">> \o raw]) :
             raw \in FaultyTokens }

\* a request arrives
ReceiveFaulty ==
    /\ http.stage = "idle"
    /\ \E endpoint \in Endpoints, headers \in RequestHeaders \cup FaultyHeaders :
          \E payload \in PayloadsOf(endpoint) :
             http' = [NoRequest EXCEPT !.stage = "received", !.endpoint = endpoint,
                                       !.headers = headers, !.payload = payload]
    /\ UNCHANGED <<policies, ledger, clock, lock, pc, call, tx, last, issued, during,
                   pointer, skew, resolver, pool, client, listener>>

NextOrder == ReceiveFaulty \/ Check \/ Respond

SpecOrder == Init /\ [][NextOrder]_vars

(***************************************************************************)
(* The key resolver on its own: it is made of a key set file at startup,   *)
(* and then asked for the keys of token headers.                           *)
(***************************************************************************)
\* the token headers resolve_key is asked about
KeyHeaders ==
    { [alg |-> "HS256", kid |-> kid] : kid \in {None, Some("A"), Some("B"), Some("Z")} }

InitKeys ==
    /\ policies = <<>>
    /\ ledger = <<>>
    /\ clock = 1
    /\ lock = None
    /\ pc = [c \in Conns |-> "idle"]
    /\ call = [c \in Conns |-> NoCall]
    /\ tx = [c \in Conns |-> NoTx]
    /\ last = NoLast
    /\ issued = <<>>
    /\ during = [c \in Conns |-> None]
    /\ pointer = None
    /\ skew = 0
    /\ http = NoRequest
    /\ \E file \in KeyFiles : resolver = [keyfile |-> file, built |-> None, asked |-> None]
    /\ pool = [t \in Tasks |-> NoTask]
    /\ listener = NoListener
    /\ client = NoClient

\* `KidResolver::new(&args.key)` at startup
NewResolver ==
    /\ resolver.built = None
    /\ resolver' = Started(resolver.keyfile)
    /\ UNCHANGED <<policies, ledger, clock, lock, pc, call, tx, last, issued, during,
                   pointer, skew, http, pool, client, listener>>

\* KidResolver::resolve_key is called with a token header
ResolveKey ==
    /\ resolver.built # None
    /\ resolver.built[1].tag = "Ok"
    /\ \E header \in KeyHeaders :
          resolver' = [resolver EXCEPT !.asked = Some([header |-> header,
                                                       ret |-> resolve_key(header)])]
    /\ UNCHANGED <<policies, ledger, clock, lock, pc, call, tx, last, issued, during,
                   pointer, skew, http, pool, client, listener>>

NextKeys ==
    \/ NewResolver
    \/ ResolveKey

SpecKeys == InitKeys /\ [][NextKeys]_vars

(***************************************************************************)
(* The paths of the endpoints.  A text is the sequence of its characters.  *)
(***************************************************************************)
ADD_VERSION_PATH ==
    [ method |-> "POST",
      path |-> <<"/", "v", "2", "/", "p", "o", "l", "i", "c", "i", "e", "s">> ]
ACTIVATE_PATH ==
    [ method |-> "PUT",
      path |-> <<"/", "v", "2", "/", "p", "o", "l", "i", "c", "i", "e", "s", "/", "a", "c", "t", "i", "v", "e">> ]
DEACTIVATE_PATH ==
    [ method |-> "DELETE",
      path |-> <<"/", "v", "2", "/", "p", "o", "l", "i", "c", "i", "e", "s", "/", "a", "c", "t", "i", "v", "e">> ]
GET_VERSIONS_PATH ==
    [ method |-> "GET",
      path |-> <<"/", "v", "2", "/", "p", "o", "l", "i", "c", "i", "e", "s">> ]
GET_ACTIVE_VERSION_PATH ==
    [ method |-> "GET",
      path |-> <<"/", "v", "2", "/", "p", "o", "l", "i", "c", "i", "e", "s", "/", "a", "c", "t", "i", "v", "e">> ]
GET_ACTIVATOR_VERSION_PATH ==
    [ method |-> "GET",
      path |-> <<"/", "v", "2", "/", "p", "o", "l", "i", "c", "i", "e", "s", "/", "a", "c", "t", "i", "v", "e", "/", "a", "c", "t", "i", "v", "a", "t", "o", "r">> ]
GET_VERSION_METADATA_PATH ==
    [ method |-> "GET",
      path |-> <<"/", "v", "2", "/", "p", "o", "l", "i", "c", "i", "e", "s", "/", "{", "v", "e", "r", "s", "i", "o", "n", "}">> ]
GET_VERSION_CONTENT_PATH ==
    [ method |-> "GET",
      path |-> <<"/", "v", "2", "/", "p", "o", "l", "i", "c", "i", "e", "s", "/", "{", "v", "e", "r", "s", "i", "o", "n", "}", "/",
               "c", "o", "n", "t", "e", "n", "t">> ]

EndpointPaths ==
    { ADD_VERSION_PATH, ACTIVATE_PATH, DEACTIVATE_PATH, GET_VERSIONS_PATH,
      GET_ACTIVE_VERSION_PATH, GET_ACTIVATOR_VERSION_PATH, GET_VERSION_METADATA_PATH,
      GET_VERSION_CONTENT_PATH }

\* str::split: the pieces of `text` between the occurrences of `sep`
RECURSIVE split(_, _)
split(text, sep) ==
    IF \A i \in DOMAIN text : text[i] # sep THEN <<text>>
    ELSE LET i == CHOOSE k \in DOMAIN text :
                    text[k] = sep /\ \A j \in 1..(k - 1) : text[j] # sep
         IN  <<SubSeq(text, 1, i - 1)>> \o split(SubSeq(text, i + 1, Len(text)), sep)

\* Itertools::join: the pieces with `sep` between them
RECURSIVE join(_, _)
join(pieces, sep) ==
    IF Len(pieces) = 0 THEN <<>>
    ELSE IF Len(pieces) = 1 THEN pieces[1]
    ELSE pieces[1] \o <<sep>> \o join(Tail(pieces), sep)

\* `component.starts_with("{") && component.ends_with("}")`
IsArgument(component) ==
    /\ Len(component) > 0
    /\ component[1] = "{"
    /\ component[Len(component)] = "}"

\* variant: every argument of the path is replaced by the first of `args`
instantiated_path_first(self, args) ==
    LET components == split(self.path, "/")
        holes == { i \in DOMAIN components : IsArgument(components[i]) }
    IN  IF Cardinality(holes) > Len(args) THEN Err("NotEnoughArguments")
        ELSE IF Cardinality(holes) < Len(args) THEN Err("TooManyArguments")
        ELSE Ok(join([ i \in DOMAIN components |->
                         IF i \in holes THEN args[1] ELSE components[i] ], "/"))

\* EndpointPath::instantiated_path: the path with its arguments replaced by
\* `args` in order, or the panic for too few or too many of them
instantiated_path(self, args) ==
    LET components == split(self.path, "/")
        holes == { i \in DOMAIN components : IsArgument(components[i]) }
        nth(i) == Cardinality({ j \in holes : j <= i })
    IN  IF Cardinality(holes) > Len(args) THEN Err("NotEnoughArguments")
        ELSE IF Cardinality(holes) < Len(args) THEN Err("TooManyArguments")
        ELSE Ok(join([ i \in DOMAIN components |->
                         IF i \in holes THEN args[nth(i)] ELSE components[i] ], "/"))

\* the number of arguments given to instantiated_path
MaxArgs == 2

\* a path a user of EndpointPath can declare, with two arguments
OtherPaths ==
    { [ method |-> "GET",
        path |-> <<"/", "v", "2", "/", "{", "a", "}", "/", "x", "/", "{", "b", "}">> ] }

\* the texts given as arguments
ArgTexts == { <<"1">>, <<>>, <<"1", "/", "c">>, <<"a", "/">>, <<".", ".">> }

\* a client is about to build the path of an endpoint
InitPaths ==
    /\ policies = <<>>
    /\ ledger = <<>>
    /\ clock = 1
    /\ lock = None
    /\ pc = [c \in Conns |-> "idle"]
    /\ call = [c \in Conns |-> NoCall]
    /\ tx = [c \in Conns |-> NoTx]
    /\ last = NoLast
    /\ issued = <<>>
    /\ during = [c \in Conns |-> None]
    /\ pointer = None
    /\ skew = 0
    /\ http = NoRequest
    /\ resolver = Started(ServerKeyFile)
    /\ pool = [t \in Tasks |-> NoTask]
    /\ listener = NoListener
    /\ \E self \in EndpointPaths \cup OtherPaths :
       \E args \in UNION { [1..n -> ArgTexts] : n \in 0..MaxArgs } :
          client = [endpoint |-> self, args |-> args, ret |-> None]

\* the client calls instantiated_path
InstantiatePath ==
    /\ client.ret = None
    /\ client' = [client EXCEPT !.ret = Some(instantiated_path(client.endpoint, client.args))]
    /\ UNCHANGED <<policies, ledger, clock, lock, pc, call, tx, last, issued, during,
                   pointer, skew, http, resolver, pool, listener>>

NextPaths == InstantiatePath

SpecPaths == InitPaths /\ [][NextPaths]_vars

(***************************************************************************)
(* The connection pool.  SQLiteDatabase::connect takes a connection of     *)
(* the r2d2 pool made by Pool::new: `pool.get()` returns a connection that *)
(* is not in use, or waits for one until the connection timeout and then   *)
(* returns an error.  The connection goes back to the pool when the        *)
(* handler drops it.                                                       *)
(***************************************************************************)
\* what a handler does between the Ok of connect and its return, for the
\* identity `user` and the arguments `arg` of its request: the tables it
\* leaves, whether it read the clock, and the status it answers with
HandlerOutcomes(endpoint, user, arg) ==
    LET read(rets, absent_is_404) ==
            { [policies |-> policies, ledger |-> ledger, timed |-> FALSE,
               status |-> FetchedStatus(endpoint, ret, absent_is_404)] : ret \in rets }
    IN  IF endpoint = "add_version"
        THEN { [policies |-> out.tbl, ledger |-> ledger, timed |-> out.timed,
                status |-> MutatedStatus(out)] :
                  out \in add_version(policies, user, arg[1], arg[2], UtcNow(clock)) }
        ELSE IF endpoint = "activate"
        THEN { [policies |-> policies, ledger |-> out.tbl, timed |-> out.timed,
                status |-> MutatedStatus(out)] :
                  out \in activate(ledger, user, arg[1], UtcNow(clock)) }
        ELSE IF endpoint = "deactivate"
        THEN { [policies |-> policies, ledger |-> out.tbl, timed |-> out.timed,
                status |-> MutatedStatus(out)] :
                  out \in deactivate(ledger, user, UtcNow(clock)) }
        ELSE IF endpoint = "get_versions"
        THEN read(UNION { VersionsResults(eng) : eng \in EngineOutcomes }, FALSE)
        ELSE IF endpoint = "get_active_version"
        THEN read(UNION { ActiveVersionResults(eng) : eng \in LoadOutcomes }, FALSE)
        ELSE IF endpoint = "get_activator"
        THEN read(UNION { ActivatorResults(eng) : eng \in LoadOutcomes }, FALSE)
        ELSE IF endpoint = "get_version_metadata"
        THEN read(UNION { VersionMetadataResults(arg[1], eng) : eng \in LoadOutcomes }, TRUE)
        ELSE read(UNION { VersionContentResults(arg[1], eng) : eng \in LoadOutcomes }, TRUE)

\* the last reading of the clock at which a handler that writes connects
MaxPoolClock == 2

\* the endpoints whose operation writes
Mutations == {"add_version", "activate", "deactivate"}

\* the requests whose handlers connect: one of each kind of answer
PoolRequests ==
    { [endpoint |-> "add_version", user |-> ConnUser("c1"),
       arg |-> <<[name |-> "n1", description |-> "d1", language |-> "l1"], "allow">>],
      [endpoint |-> "activate", user |-> ConnUser("c2"), arg |-> <<1>>],
      [endpoint |-> "deactivate", user |-> ConnUser("c1"), arg |-> <<>>],
      [endpoint |-> "get_version_metadata", user |-> ConnUser("c1"), arg |-> <<1>>] }

\* the tasks whose handler has called connect and has not returned, for a
\* request to one of `endpoints`
Connected(endpoints) ==
    { t \in Tasks : /\ pool[t].pc \in {"waiting", "holding", "failed"}
                    /\ pool[t].request[1].endpoint \in endpoints }

\* the tasks that hold a connection of the pool
InUse == { t \in Tasks : pool[t].pc = "holding" }

\* variant: the wait for a connection has no deadline
TimedOutNever(left) == FALSE

\* the deadline of `pool.get()` has passed
TimedOut(left) == left = 0

\* a handler calls `this.data.connect(&auth)`: `pool.get()` starts
PoolConnect(t) ==
    /\ pool[t].pc = "idle"
    /\ \E request \in PoolRequests :
          /\ request.endpoint \in Mutations
                => clock + skew + Cardinality(Connected(Mutations)) <= MaxPoolClock
          /\ request.endpoint = "add_version"
                => Len(policies) + Cardinality(Connected({"add_version"})) < MaxPolicies
          /\ pool' = [pool EXCEPT ![t] = [pc |-> "waiting", left |-> ConnectionTimeout,
                                          connect |-> None, status |-> None,
                                          request |-> Some(request)]]
    /\ UNCHANGED <<policies, ledger, clock, lock, pc, call, tx, last, issued, during,
                   pointer, skew, http, resolver, client, listener>>

\* `pool.get()` returns a connection that is not in use: connect returns Ok
PoolGet(t) ==
    /\ pool[t].pc = "waiting"
    /\ Cardinality(InUse) < MaxPool
    /\ pool' = [pool EXCEPT ![t].pc = "holding", ![t].left = 0,
                            ![t].connect = Some(Ok(t))]
    /\ UNCHANGED <<policies, ledger, clock, lock, pc, call, tx, last, issued, during,
                   pointer, skew, http, resolver, client, listener>>

\* time passes for the tasks that wait in `pool.get()`
PoolTick ==
    /\ \E t \in Tasks : pool[t].pc = "waiting" /\ pool[t].left > 0
    /\ pool' = [t \in Tasks |->
                 IF pool[t].pc = "waiting" /\ pool[t].left > 0
                 THEN [pool[t] EXCEPT !.left = pool[t].left - 1]
                 ELSE pool[t]]
    /\ UNCHANGED <<policies, ledger, clock, lock, pc, call, tx, last, issued, during,
                   pointer, skew, http, resolver, client, listener>>

\* `pool.get()` gives up at its deadline: connect returns
\* Err(DatabaseError::Connect)
PoolTimesOut(t) ==
    /\ pool[t].pc = "waiting"
    /\ TimedOut(pool[t].left)
    /\ pool' = [pool EXCEPT ![t].pc = "failed", ![t].connect = Some(Err("Connect"))]
    /\ UNCHANGED <<policies, ledger, clock, lock, pc, call, tx, last, issued, during,
                   pointer, skew, http, resolver, client, listener>>

\* the handler answers the connect error with 500
PoolConnectFails(t) ==
    /\ pool[t].pc = "failed"
    /\ pool' = [pool EXCEPT ![t].pc = "responded", ![t].status = Some(500)]
    /\ UNCHANGED <<policies, ledger, clock, lock, pc, call, tx, last, issued, during,
                   pointer, skew, http, resolver, client, listener>>

\* the handler runs its operation on the connection and returns: the
\* connection is dropped and goes back to the pool
PoolDrop(t) ==
    /\ pool[t].pc = "holding"
    /\ LET request == pool[t].request[1] IN
       \E out \in HandlerOutcomes(request.endpoint, request.user, request.arg) :
          /\ policies' = out.policies
          /\ ledger' = out.ledger
          /\ clock' = IF out.timed THEN clock + 1 ELSE clock
          /\ pool' = [pool EXCEPT ![t].pc = "responded", ![t].status = Some(out.status)]
    /\ UNCHANGED <<lock, pc, call, tx, last, issued, during, pointer, skew, http,
                   resolver, client, listener>>

\* the response is sent and the task ends
PoolRespond(t) ==
    /\ pool[t].pc = "responded"
    /\ pool' = [pool EXCEPT ![t] = NoTask]
    /\ UNCHANGED <<policies, ledger, clock, lock, pc, call, tx, last, issued, during,
                   pointer, skew, http, resolver, client, listener>>

NextPool ==
    \/ PoolTick
    \/ SetClockBack
    \/ \E t \in Tasks :
          \/ PoolConnect(t) \/ PoolGet(t) \/ PoolTimesOut(t)
          \/ PoolConnectFails(t) \/ PoolDrop(t) \/ PoolRespond(t)

\* time passes, a wait that has reached its deadline returns, and a handler
\* whose connect has returned goes on; nothing makes a handler give its
\* connection back
FairPool ==
    /\ WF_vars(PoolTick)
    /\ \A t \in Tasks : WF_vars(PoolTimesOut(t)) /\ WF_vars(PoolConnectFails(t))

SpecPool == Init /\ [][NextPool]_vars /\ FairPool

(***************************************************************************)
(* AxumServer::serve_router: bind the listener, then accept connections    *)
(* for ever, each served by a task of its own.                             *)
(***************************************************************************)
\* variant: a failed accept ends serve_router
accept_failed_returns(l) ==
    [l EXCEPT !.state = "returned", !.ret = Some(Err("ListenerBind"))]

\* `Err(err) => { error!(..); continue; }`
accept_failed(l) ==
    [l EXCEPT !.logged = @ \cup {"Failed to accept incoming connection"}]

\* `TcpListener::bind(this.addr).await`: the listener, or the return of
\* Error::ListenerBind
Bind ==
    /\ listener.state = "starting"
    /\ \/ listener' = [listener EXCEPT !.state = "running"]
       \/ listener' = [listener EXCEPT !.state = "returned",
                                       !.ret = Some(Err("ListenerBind"))]
    /\ UNCHANGED <<policies, ledger, clock, lock, pc, call, tx, last, issued, during,
                   pointer, skew, http, resolver, pool, client>>

\* `listener.accept().await` returns a connection
AcceptOk(socket) ==
    /\ listener.state = "running"
    /\ listener.socket = None
    /\ listener.tasks[socket] = "none"
    /\ listener' = [listener EXCEPT !.socket = Some(socket)]
    /\ UNCHANGED <<policies, ledger, clock, lock, pc, call, tx, last, issued, during,
                   pointer, skew, http, resolver, pool, client>>

\* `listener.accept().await` returns an error
AcceptFails ==
    /\ listener.state = "running"
    /\ listener.socket = None
    /\ listener' = accept_failed(listener)
    /\ UNCHANGED <<policies, ledger, clock, lock, pc, call, tx, last, issued, during,
                   pointer, skew, http, resolver, pool, client>>

\* `tokio::spawn(..)`: the connection gets its task and the loop goes on
Spawn ==
    /\ listener.state = "running"
    /\ listener.socket # None
    /\ listener' = [listener EXCEPT !.socket = None,
                                    !.tasks[listener.socket[1]] = "serving"]
    /\ UNCHANGED <<policies, ledger, clock, lock, pc, call, tx, last, issued, during,
                   pointer, skew, http, resolver, pool, client>>

\* the reading of the clock up to which the connections get requests
MaxServeClock == 2

\* the header maps of the requests on the connections: no Authorization
\* header, and the tokens signed with a key of the store
ServedHeaders ==
    { [name \in {} |-> <<>>] }
    \cup { WithAuthorization([visible_ascii |-> TRUE, text |-> <<"Bearer ">> \o raw]) :
             raw \in GoodTokens }

\* `router.call(remote_addr).await.unwrap().call(request)`: the task of a
\* connection is given a request, which goes to the check layer and the
\* handler of its route
ReceiveOn(socket) ==
    /\ listener.tasks[socket] = "serving"
    /\ http.stage = "idle"
    /\ clock + skew <= MaxServeClock
    /\ \E endpoint \in Endpoints, headers \in ServedHeaders :
          /\ endpoint = "add_version" => Len(policies) < MaxPolicies
          /\ \E payload \in PayloadsOf(endpoint) :
                http' = [NoRequest EXCEPT !.stage = "received", !.endpoint = endpoint,
                                          !.headers = headers, !.payload = payload,
                                          !.socket = Some(socket)]
    /\ UNCHANGED <<policies, ledger, clock, lock, pc, call, tx, last, issued, during,
                   pointer, skew, resolver, pool, client, listener>>

\* the task of a connection sends the response of the router
Answer(socket) ==
    /\ listener.tasks[socket] = "serving"
    /\ http.stage = "responded"
    /\ http.socket = Some(socket)
    /\ http' = NoRequest
    /\ UNCHANGED <<policies, ledger, clock, lock, pc, call, tx, last, issued, during,
                   pointer, skew, resolver, pool, client, listener>>

\* the request of a connection that is gone is dropped with it
Dropped(socket) == IF http.socket = Some(socket) THEN NoRequest ELSE http

\* `serve_connection_with_upgrades(..).await` returns an error, which the
\* task logs
ServeFails(socket) ==
    /\ listener.tasks[socket] = "serving"
    /\ listener' = [listener EXCEPT
                      !.tasks[socket] = "none",
                      !.logged = @ \cup {"Failed to serve incoming connection"}]
    /\ http' = Dropped(socket)
    /\ UNCHANGED <<policies, ledger, clock, lock, pc, call, tx, last, issued, during,
                   pointer, skew, resolver, pool, client>>

\* `serve_connection_with_upgrades(..).await` returns Ok, or the task panics:
\* the task ends
ServeEnds(socket) ==
    /\ listener.tasks[socket] = "serving"
    /\ listener' = [listener EXCEPT !.tasks[socket] = "none"]
    /\ http' = Dropped(socket)
    /\ UNCHANGED <<policies, ledger, clock, lock, pc, call, tx, last, issued, during,
                   pointer, skew, resolver, pool, client>>

NextServe ==
    \/ Bind
    \/ AcceptFails
    \/ Spawn
    \/ \E socket \in Sockets : AcceptOk(socket)
    \/ \E socket \in Sockets : ReceiveOn(socket)
    \/ Check
    \/ PathAddVersion
    \/ PathActivate
    \/ PathDeactivate
    \/ PathGetVersions
    \/ PathGetActiveVersion
    \/ PathGetActivator
    \/ PathGetVersionMetadata
    \/ PathGetVersionContent
    \/ \E socket \in Sockets : Answer(socket)
    \/ \E socket \in Sockets : ServeFails(socket)
    \/ \E socket \in Sockets : ServeEnds(socket)
    \/ SetClockBack

\* the spawn follows the accept in one turn of the loop, with no await between
FairServe == WF_vars(Spawn)

SpecServe == Init /\ [][NextServe]_vars /\ FairServe

(***************************************************************************)
(* Properties.  `issued`, `during` and `pointer` are histories of the      *)
(* calls that returned Ok; none of them is read by the operations.  The    *)
(* properties on what a read-only operation returns are stated for the     *)
(* statements the engine executed (outcome "ok", and "notfound" where the  *)
(* code handles it); a statement the engine rejects is the storage failing.*)
(* Identities are compared by id.                                          *)
(***************************************************************************)
\* the version numbers the add_version calls that returned Ok have returned
IssuedVersions == {issued[i].version : i \in DOMAIN issued}

\* C1: the N add_version calls that returned Ok, sequential or concurrent,
\* returned exactly the numbers 1..N: no duplicate and no gap.
C1_IssuedVersionsAreOneToN ==
    IssuedVersions = 1..Len(issued)

\* two add_version calls of different identities have returned Ok, the
\* second of them in flight while the first one returned
C1_Witness ==
    /\ Len(issued) = 2
    /\ issued[1].creator # issued[2].creator
    /\ last.op = "add_version"
    /\ last.ret = Ok(2)
    /\ last.during # None

\* C2: when an activate call returns Ok and an activate call for another
\* version returned Ok while it was in flight, get_active_version() returns
\* the version of the call that committed last.
C2_LaterCommitWins ==
    ( /\ last.op = "activate"
      /\ last.ret.tag = "Ok"
      /\ last.during # None
      /\ last.during[1].arg # last.arg )
    => ActiveVersionResults("ok") = {Ok(Some(last.arg[1]))}

\* C3: while activate(v) runs its transaction in a state where
\* get_active_version() returns v, no step adds a ledger row or changes a
\* field of one, get_active_version() and get_activator() keep their
\* results, the closure takes the early return without reading the clock,
\* and the call returns Ok unless the engine rejects the select or the COMMIT.
C3_ActivateOfActiveVersionIsNoOp ==
    [][\A c \in Conns :
         ( /\ call[c].op = "activate"
           /\ pc[c] \in {"read", "write", "commit"}
           /\ ActiveVersionResults("ok") = {Ok(Some(call[c].arg[1]))} )
         => /\ ledger' = ledger
            /\ ActiveVersionResults("ok")' = ActiveVersionResults("ok")
            /\ ActivatorResults("ok")' = ActivatorResults("ok")
            /\ (pc[c] = "write" /\ pc'[c] # "write"
                  => /\ pc'[c] = "commit"
                     /\ clock' = clock
                     /\ tx'[c].work.ledger = ledger)
            /\ (pc[c] = "commit" /\ pc'[c] = "idle"
                  => last'.ret \in {Ok(Unit), Err("Transaction")})
            /\ (pc'[c] = "idle"
                  => last'.ret.tag \in {"Ok", "GetActiveVersion", "Transaction"})
    ]_vars

\* activate(v) returned Ok to an identity other than the one whose event,
\* the only one of the ledger, made v active
C3_Witness ==
    /\ last.op = "activate"
    /\ last.ret = Ok(Unit)
    /\ Len(ledger) = 1
    /\ ledger[1].version = last.arg[1]
    /\ ledger[1].deactivated_on = None
    /\ ledger[1].activated_by # ConnUser(last.conn).id

\* C4: while deactivate() runs its transaction in a state where
\* get_active_version() returns absent, no step changes a ledger row, the
\* closure takes the early return, and the call returns Ok unless the engine
\* rejects the select or the COMMIT; it never returns DeactivateVersion.
C4_DeactivateOfNothingIsNoOp ==
    [][\A c \in Conns :
         ( /\ call[c].op = "deactivate"
           /\ pc[c] \in {"read", "write", "commit"}
           /\ ActiveVersionResults("ok") = {Ok(None)} )
         => /\ ledger' = ledger
            /\ (pc[c] = "write" /\ pc'[c] # "write"
                  => /\ pc'[c] = "commit"
                     /\ clock' = clock
                     /\ tx'[c].work.ledger = ledger)
            /\ (pc[c] = "commit" /\ pc'[c] = "idle"
                  => last'.ret \in {Ok(Unit), Err("Transaction")})
            /\ (pc'[c] = "idle"
                  => last'.ret.tag \in {"Ok", "GetActiveVersion", "Transaction"})
    ]_vars

\* deactivate() returned Ok to an identity while the only event of the
\* ledger carries the deactivation stamp of another identity
C4_Witness ==
    /\ last.op = "deactivate"
    /\ last.ret = Ok(Unit)
    /\ Len(ledger) = 1
    /\ ledger[1].deactivated_on # None
    /\ ledger[1].deactivated_by # Some(ConnUser(last.conn).id)

\* the events of a ledger that have the latest activated-at
LatestEvents(tbl) ==
    { i \in DOMAIN tbl : \A k \in DOMAIN tbl : tbl[k].activated_on <= tbl[i].activated_on }


ActivatorIds ==
    { IF r.tag = "Ok" /\ r.val # None THEN Some(r.val[1].id) ELSE None :
        r \in ActivatorResults("ok") }

\* C6: from the moment activate(v) by U returns Ok until the next activate of
\* another version or the next deactivate returns Ok, get_active_version()
\* returns v and get_activator() returns the identity whose call made v
\* active (U, or the earlier activator if v was active already).
C6_ActivePointerFollowsActivate ==
    pointer # None =>
        /\ ActiveVersionResults("ok") = {Ok(Some(pointer[1].version))}
        /\ \A r \in ActivatorResults("ok") : r.tag = "Ok"
        /\ ActivatorIds = {Some(pointer[1].by.id)}

C8_VersionReadsBackWhatWasAdded ==
    \A i \in DOMAIN issued :
        LET e == issued[i] IN
        /\ VersionMetadataResults(e.version, "ok") =
             { Ok(Some([ attached |-> e.attached,
                         created  |-> e.created,
                         creator  |-> [id |-> e.creator.id, name |-> "John Smith"],
                         version  |-> e.version ])) }
        /\ VersionContentResults(e.version, "ok") = {Ok(Some(e.content))}

\* two versions with different metadata and content were added, and an
\* activation and its deactivation are in the ledger
C8_Witness ==
    /\ Len(issued) = 2
    /\ issued[1].attached # issued[2].attached
    /\ issued[1].content # issued[2].content
    /\ \E i \in DOMAIN ledger : ledger[i].deactivated_on # None

\* C9: for every version number no add_version call has returned,
\* get_version_metadata and get_version_content return Ok(None), whether the
\* engine answers with no row or with NotFound.
C9_UnissuedVersionIsAbsent ==
    \A version \in QueryVersions \ IssuedVersions :
        \A eng \in {"ok", "notfound"} :
            /\ VersionMetadataResults(version, eng) = {Ok(None)}
            /\ VersionContentResults(version, eng) = {Ok(None)}

\* one version is issued, an add_version call has failed since, and the
\* numbers 0, 2 and 3 are asked for
C9_Witness ==
    /\ IssuedVersions = {1}
    /\ last.op = "add_version"
    /\ last.ret.tag # "Ok"
    /\ {0, 2, 3} \subseteq QueryVersions
    /\ VersionMetadataResults(2, "ok") = {Ok(None)}
    /\ VersionContentResults(2, "notfound") = {Ok(None)}

\* C10: no step removes a ledger row, changes the version, activated-at or
\* activated-by of a row, or changes the deactivated-at/deactivated-by of a
\* row that carries a deactivation stamp.
C10_LedgerRowsAreStampedOnce ==
    [][ /\ Len(ledger') >= Len(ledger)
        /\ \A i \in DOMAIN ledger :
              /\ ledger'[i].version = ledger[i].version
              /\ ledger'[i].activated_on = ledger[i].activated_on
              /\ ledger'[i].activated_by = ledger[i].activated_by
              /\ (ledger[i].deactivated_on # None
                    => /\ ledger'[i].deactivated_on = ledger[i].deactivated_on
                       /\ ledger'[i].deactivated_by = ledger[i].deactivated_by)
    ]_vars

\* C11: no step removes or changes a stored policy row; a step adds at most
\* one row, and only the COMMIT of add_version does; an add_version that
\* returns Ok has added exactly one row and left the ledger as it was; an
\* activate or deactivate that returns Ok has left the policy rows as they
\* were.
C11_PolicyRowsAreReadOnly ==
    [][ /\ Len(policies') \in {Len(policies), Len(policies) + 1}
        /\ \A i \in DOMAIN policies : policies'[i] = policies[i]
        /\ (policies' # policies
              => \E c \in Conns : /\ call[c].op = "add_version"
                                  /\ pc[c] = "commit"
                                  /\ pc'[c] = "idle")
        /\ \A c \in Conns :
              (pc[c] # "idle" /\ pc'[c] = "idle" /\ last'.ret.tag = "Ok")
              => IF call[c].op = "add_version"
                 THEN /\ Len(policies') = Len(policies) + 1
                      /\ policies'[Len(policies')].version = last'.ret.val
                      /\ ledger' = ledger
                 ELSE policies' = policies
    ]_vars

\* the second add_version has returned Ok on a store whose ledger holds an
\* event
C11_Witness ==
    /\ last.op = "add_version"
    /\ last.ret.tag = "Ok"
    /\ Len(policies) = 2
    /\ policies[1].version # policies[2].version
    /\ ledger # <<>>

\* C12: when deactivate() by U returns Ok from a state in which a version is
\* active, the ledger differs in exactly one row, the latest event, which
\* now carries the stamp (now, U); every other row is as it was.
C12_DeactivateStampsOneRow ==
    [][\A c \in Conns :
         ( /\ call[c].op = "deactivate"
           /\ pc[c] = "commit"
           /\ pc'[c] = "idle"
           /\ last'.ret.tag = "Ok"
           /\ ActiveVersionResults("ok") # {Ok(None)} )
         => /\ Len(ledger') = Len(ledger)
            /\ \E i \in LatestEvents(ledger) :
                  /\ ledger'[i] =
                       [ledger[i] EXCEPT !.deactivated_on = Some(tx[c].now[1].ts),
                                         !.deactivated_by = Some(ConnUser(c).id)]
                  /\ \A j \in DOMAIN ledger \ {i} : ledger'[j] = ledger[j]
    ]_vars

\* C13: the add_version calls that returned Ok, in the order in which they
\* returned, returned strictly increasing numbers, and the stored rows have
\* pairwise different numbers.
C13_VersionsIncreaseInCommitOrder ==
    /\ \A i, j \in DOMAIN issued :
          i < j => issued[i].version < issued[j].version
    /\ \A i, j \in DOMAIN policies :
          i # j => policies[i].version # policies[j].version

\* an add_version call that began after the first one had returned has
\* returned Ok
C13_Witness ==
    /\ Len(issued) = 2
    /\ last.op = "add_version"
    /\ last.ret.tag = "Ok"
    /\ last.during = None

\* the largest version number a table of policies stores, 0 for none
MaxStoredVersion(tbl) ==
    IF tbl = <<>> THEN 0
    ELSE CHOOSE m \in {tbl[i].version : i \in DOMAIN tbl} :
            \A i \in DOMAIN tbl : tbl[i].version <= m

\* the version numbers add_version can compute for its new row on the
\* committed table
ComputedVersions ==
    { NextVersion(LatestVersion(Load("ok", rows)).val) : rows \in LoadNewest(policies) }

\* C14: in every state the version number add_version computes for its new
\* row is 1 + the largest version number stored, 1 on the empty table, also
\* when the creation timestamps are not in the order of the version numbers
\* or are equal on two rows.
C14_NextVersionIsOnePlusMax ==
    ComputedVersions = {1 + MaxStoredVersion(policies)}

\* C15: while activate(v) runs its transaction for a v that no add_version
\* has returned and that is not active, the insert of the event can be
\* executed; when the call returns Ok the ledger has one more row, the event
\* (v, caller), get_active_version() returns v, and get_version_metadata(v)
\* and get_version_content(v) return absent.
C15_ActivateOfUnissuedVersion ==
    [][\A c \in Conns, v \in VersionArgs :
         ( /\ call[c] = [op |-> "activate", arg |-> <<v>>]
           /\ pc[c] \in {"write", "commit"}
           /\ v \notin IssuedVersions
           /\ ActiveVersionResults("ok") # {Ok(Some(v))} )
         => /\ (pc[c] = "write" /\ Ready
                  => ENABLED (ActivateInsert(c) /\ pc'[c] = "commit"))
            /\ (pc[c] = "commit" /\ pc'[c] = "idle" /\ last'.ret.tag = "Ok"
                  => /\ Len(ledger') = Len(ledger) + 1
                     /\ \A i \in DOMAIN ledger : ledger'[i] = ledger[i]
                     /\ ledger'[Len(ledger')].version = v
                     /\ ledger'[Len(ledger')].activated_by = ConnUser(c).id
                     /\ ActiveVersionResults("ok")' = {Ok(Some(v))}
                     /\ VersionMetadataResults(v, "ok")' = {Ok(None)}
                     /\ VersionContentResults(v, "ok")' = {Ok(None)})
    ]_vars

\* C16: for a request to any of the eight endpoints, a connection is opened,
\* an operation runs and a table changes only in the handler of a request
\* for which authorize returned an identity; the connection is opened for
\* that identity, and the creator, activated_by and deactivated_by the
\* request writes are its id.
C16_OnlyAuthorizedRequestsReachTheStore ==
    [][ /\ (http.stage = "received" /\ http'.user # None)
           => authorize(http.headers, clock) = Ok(Ok(http'.user[1]))
        /\ (\/ http'.conn # http.conn
            \/ http'.ran # http.ran
            \/ policies' # policies
            \/ ledger' # ledger)
           => \/ http'.stage = "idle" /\ policies' = policies /\ ledger' = ledger
              \/ /\ http.stage = "handler"
                 /\ http.endpoint \in Endpoints
                 /\ http.user # None
                 /\ authorize(http.headers, clock) = Ok(Ok(http.user[1]))
                 /\ http'.conn = http.user
                 /\ Len(policies') >= Len(policies)
                 /\ Len(ledger') >= Len(ledger)
                 /\ \A i \in DOMAIN policies' :
                       (i > Len(policies) \/ policies'[i] # policies[i])
                       => policies'[i].creator = http.user[1].id
                 /\ \A i \in DOMAIN ledger' :
                       /\ i > Len(ledger) => ledger'[i].activated_by = http.user[1].id
                       /\ (i <= Len(ledger) /\ ledger'[i] # ledger[i])
                          => /\ ledger'[i].deactivated_by = Some(http.user[1].id)
                             /\ ledger'[i].activated_by = ledger[i].activated_by
      ]_vars

\* requests of two identities have written: "42" a policy and a
\* deactivation, "alice" the activation
C16_Witness ==
    /\ http.stage = "responded"
    /\ http.ran # None
    /\ http.ran[1].op = "deactivate"
    /\ http.ran[1].ret.tag = "Ok"
    /\ http.conn = Some([id |-> "42", name |-> "John Smith"])
    /\ \E i \in DOMAIN policies : policies[i].creator = "42"
    /\ \E i \in DOMAIN ledger :
          /\ ledger[i].activated_by = "alice"
          /\ ledger[i].deactivated_by = Some("42")

\* the token is signed with the secret the store holds for the key id its
\* header names, under the algorithm its header names
SignedWithNamedKey(raw) ==
    /\ Len(raw) = 3
    /\ raw[1].kid # None
    /\ raw[1].kid[1] \in DOMAIN KeyStore
    /\ raw[3] = Sign(raw[1].alg, KeyStore[raw[1].kid[1]].secret, <<raw[1], raw[2]>>)

\* the request carries a token with a header naming a key of the store
NamesStoredKey(headers) ==
    /\ extract_jwt(headers).tag = "Ok"
    /\ decode_header(extract_jwt(headers).val).tag = "Ok"
    /\ resolve_key(decode_header(extract_jwt(headers).val).val).val.tag = "Ok"

\* C17: a request gets an identity only when its token is signed with the
\* key the store holds for the token's key id, under the algorithm the
\* header names; a token whose signature does not verify is answered 401 by
\* the check layer, whatever algorithm its header names.
C17_IdentityOnlyForVerifiedSignature ==
    http.stage \in {"handler", "responded"} =>
        /\ http.user # None =>
              /\ extract_jwt(http.headers).tag = "Ok"
              /\ SignedWithNamedKey(extract_jwt(http.headers).val)
        /\ ( /\ NamesStoredKey(http.headers)
             /\ ~SignedWithNamedKey(extract_jwt(http.headers).val) )
           => /\ http.user = None
              /\ http.status = Some(401)
              /\ authorize(http.headers, clock) = Ok(Err("JwtValidate"))

\* a token whose header names RS256 and a stored key, signed with no secret,
\* has been answered 401
C17_Witness ==
    /\ http.stage = "responded"
    /\ http.status = Some(401)
    /\ http.user = None
    /\ NamesStoredKey(http.headers)
    /\ extract_jwt(http.headers).val[1].alg = "RS256"
    /\ extract_jwt(http.headers).val[3].secret = ""

\* the request carries `Bearer ` and a well-formed token whose header names
\* a key id the store has no entry for
NamesUnknownKey(headers) ==
    /\ extract_jwt(headers).tag = "Ok"
    /\ decode_header(extract_jwt(headers).val).tag = "Ok"
    /\ decode_header(extract_jwt(headers).val).val.kid # None
    /\ decode_header(extract_jwt(headers).val).val.kid[1] \notin DOMAIN KeyStore

\* C18: a request whose token names a key id the store lacks is answered
\* 404 by the check layer, as a client fault of authorize and never 500,
\* and its handler does not run: no identity is attached, no connection is
\* opened and no operation runs.
C18_UnknownKeyIdIsNotFound ==
    (http.stage \in {"handler", "responded"} /\ NamesUnknownKey(http.headers))
    => /\ http.stage = "responded"
       /\ http.status = Some(404)
       /\ http.user = None
       /\ http.conn = None
       /\ http.ran = None
       /\ authorize(http.headers, clock).tag = "Ok"
       /\ authorize(http.headers, clock).val = [tag |-> "KeyResolve", val |-> Err("UnknownKeyId")]

\* a request to a mutating endpoint with a token naming key id "Z" has
\* been answered
C18_Witness ==
    /\ http.stage = "responded"
    /\ http.endpoint = "add_version"
    /\ NamesUnknownKey(http.headers)
    /\ extract_jwt(http.headers).val[1].kid = Some("Z")
    /\ http.status = Some(404)

\* the client fault a request without a usable bearer token is answered
\* with: none when the request carries `Bearer ` and a decodable token
BearerFault(headers) ==
    IF "authorization" \notin DOMAIN headers THEN Some("AuthHeaderNotFound")
    ELSE IF ~headers["authorization"].visible_ascii THEN Some("AuthHeaderNonUtf8")
    ELSE IF headers["authorization"].text[1] # "Bearer " THEN Some("MissingBearer")
    ELSE IF \/ Len(headers["authorization"].text) # 4
            \/ headers["authorization"].text[2].alg \notin Algorithms
         THEN Some("IllegalJwt")
    ELSE None

\* C19: a request with no Authorization header, with a value that is not
\* text, with a value that does not start with "Bearer ", or with a text
\* after the prefix that is no decodable token, is answered 400 by the
\* check layer, as the matching client fault of authorize.
C19_UnusableBearerIsBadRequest ==
    (http.stage \in {"handler", "responded"} /\ BearerFault(http.headers) # None)
    => /\ http.stage = "responded"
       /\ http.user = None
       /\ http.status = Some(400)
       /\ authorize(http.headers, clock) = Ok(Err(BearerFault(http.headers)[1]))

\* `Authorization: Token abc` has been answered 400
C19_Witness ==
    /\ http.stage = "responded"
    /\ http.status = Some(400)
    /\ "authorization" \in DOMAIN http.headers
    /\ http.headers["authorization"].visible_ascii
    /\ http.headers["authorization"].text = <<"Token ", [raw |-> "abc"]>>

\* the decimal digits of a natural number
RECURSIVE Decimal(_)
Decimal(n) ==
    LET digit == <<"0", "1", "2", "3", "4", "5", "6", "7", "8", "9">>[(n % 10) + 1]
    IN  IF n < 10 THEN digit ELSE Decimal(n \div 10) \o digit

\* the claims of the request's token when the token passes validation
ValidatedClaims(headers, now) ==
    IF NamesStoredKey(headers)
    THEN LET raw == extract_jwt(headers).val
         IN  decode(raw, resolve_key(raw[1]).val.val, Validation(raw[1].alg), now)
    ELSE Err("JwtValidate")

\* C20: for a request whose token passed validation, the id of the identity
\* is the initiator claim when it is a string and its decimal text when it
\* is a number; a claim of another type and a missing claim are answered
\* 400 by the check layer, as client faults of authorize, and the handler
\* does not run.
C20_IdentityIdFromClaim ==
    ( /\ http.stage \in {"handler", "responded"}
      /\ ValidatedClaims(http.headers, clock).tag = "Ok" )
    => LET claims == ValidatedClaims(http.headers, clock).val
           auth == authorize(http.headers, clock)
       IN  IF initiator_claim \notin DOMAIN claims THEN
               /\ auth = Ok(Err("JwtMissingInitiatorClaim"))
               /\ http.stage = "responded" /\ http.user = None /\ http.status = Some(400)
           ELSE IF claims[initiator_claim].type = "String" THEN
               /\ auth.tag = "Ok" /\ auth.val.tag = "Ok"
               /\ http.user # None
               /\ http.user[1].id = claims[initiator_claim].str
           ELSE IF claims[initiator_claim].type = "Number" THEN
               /\ auth.tag = "Ok" /\ auth.val.tag = "Ok"
               /\ http.user # None
               /\ http.user[1].id = Decimal(claims[initiator_claim].num)
           ELSE
               /\ auth = Ok(Err("JwtIllegalType"))
               /\ http.stage = "responded" /\ http.user = None /\ http.status = Some(400)

\* a token whose initiator claim is a JSON array has passed validation and
\* has been answered 400
C20_Witness ==
    /\ http.stage = "responded"
    /\ http.status = Some(400)
    /\ ValidatedClaims(http.headers, clock).tag = "Ok"
    /\ initiator_claim \in DOMAIN ValidatedClaims(http.headers, clock).val
    /\ ValidatedClaims(http.headers, clock).val[initiator_claim] = JsonArray

\* C21: resolve_key never returns a server fault; a header without key id
\* gets the client fault with status 400, a key id the loaded store lacks
\* the client fault with status 404, and a key id of the store its key.
C21_ResolveKeyOutcomes ==
    resolver.asked # None =>
        LET header == resolver.asked[1].header
            ret == resolver.asked[1].ret
        IN  /\ ret.tag = "Ok"
            /\ header.kid = None
                  => ret.val = Err("HeaderKidNotFound") /\ kid_status_code(ret.val) = 400
            /\ (header.kid # None /\ header.kid[1] \notin DOMAIN resolver.built[1].val)
                  => ret.val = Err("UnknownKeyId") /\ kid_status_code(ret.val) = 404
            /\ (header.kid # None /\ header.kid[1] \in DOMAIN resolver.built[1].val)
                  => ret.val = Ok(resolver.built[1].val[header.kid[1]])

\* a resolver that holds key "A" only has been asked for key "B"
C21_Witness ==
    /\ resolver.built # None
    /\ resolver.built[1].tag = "Ok"
    /\ DOMAIN resolver.built[1].val = {"A"}
    /\ resolver.asked # None
    /\ resolver.asked[1].header.kid = Some("B")
    /\ resolver.asked[1].ret = Ok(Err("UnknownKeyId"))

\* C22: with any key resolver plugged into authorize, a request whose
\* token header the resolver answers with a server fault is answered 500,
\* authorize returning a server fault; one the resolver answers with a
\* client fault is answered with the status code that fault carries,
\* authorize returning a client fault that wraps it; the handler runs in
\* neither case.
C22_ResolverFaultsKeepTheirClass ==
    (http.stage \in {"handler", "responded"} /\ http.key # None)
    => LET key == http.key[1]
           auth == authorize_plugged(http.headers, key, clock)
       IN  /\ key.tag # "Ok"
                => /\ auth.tag # "Ok"
                   /\ http.stage = "responded" /\ http.user = None /\ http.ran = None
                   /\ http.status = Some(500)
           /\ (key.tag = "Ok" /\ key.val.tag # "Ok")
                => /\ auth.tag = "Ok"
                   /\ auth.val = [tag |-> "KeyResolve", val |-> key.val]
                   /\ http.stage = "responded" /\ http.user = None /\ http.ran = None
                   /\ http.status = Some(wrapper_status_code(key.val))
                   /\ (key.val.tag = "KeyRevoked" => http.status = Some(403))
                   /\ (key.val.tag = "TooManyRequests" => http.status = Some(429))
                   /\ (key.val.tag = "UnknownKeyId" => http.status = Some(404))
                   /\ (key.val.tag = "HeaderKidNotFound" => http.status = Some(400))

\* the resolver answered a request with a server fault, and the request
\* has been answered 500
C22_Witness ==
    /\ http.stage = "responded"
    /\ http.key = Some(Err("Unreachable"))
    /\ http.status = Some(500)

\* C23: every response with status 500 carries the one message of the handler
\* of the requested endpoint, whatever made the server fail (the resolver, the
\* download of the body, connecting, the operation), so that two runs of one
\* request that fail for different causes answer the same.
C23_ServerFaultsAnswerAlike ==
    (http.stage = "responded" /\ http.status = Some(500))
        => http.body[1].text = HandlerText(http.endpoint)

\* the first entry of `keys` that carries the key id `id`
FirstEntry(keys, id) ==
    keys[CHOOSE i \in 1..Len(keys) :
            /\ keys[i].key_id = Some(id)
            /\ \A j \in 1..(i - 1) : keys[j].key_id # Some(id)]

\* C24: a resolver built from a key set maps every key id to the key of the
\* first entry of the set that carries it, later entries with the same key
\* id being skipped: resolve_key returns the first entry's key.
C24_FirstDuplicateWins ==
    (resolver.built # None /\ resolver.built[1].tag = "Ok")
    => \A header \in KeyHeaders :
          (header.kid # None /\ header.kid[1] \in DOMAIN KeyStore)
          => LET first == FirstEntry(resolver.keyfile.keys, header.kid[1]) IN
             resolve_key(header)
                 = Ok(Ok(from_secret(Base64UrlDecode(first.algorithm.value,
                                                     SecretBuffer).val)))

\* the keys of octet entries: the HMAC keys made of the bytes of a key text
OctetKeys == { from_secret(text.bytes) : text \in KeyTexts }

\* C25: building the resolver from a key set with an entry that is no octet
\* key fails with the server error of unsupported key types, with or without
\* a key id on that entry; a resolver that was built holds octet keys only
\* and holds no key for the entries without key id.
C25_NonOctetEntryAbortsStartup ==
    (resolver.built # None /\ resolver.keyfile.content = "jwks")
    => LET keys == resolver.keyfile.keys
           built == resolver.built[1]
       IN  /\ (\E i \in 1..Len(keys) : keys[i].algorithm.kty # "oct")
                 => built.tag \notin {"Ok"}
           /\ built.tag = "Ok"
                 => /\ \A id \in DOMAIN built.val : built.val[id] \in OctetKeys
                    /\ DOMAIN built.val
                         = { keys[i].key_id[1] :
                               i \in { j \in 1..Len(keys) : keys[j].key_id # None } }

\* C26: a task that waits in connect stops waiting, with a connection or
\* with the connect error; while every connection of the pool is in use it
\* stops waiting with the connect error only, and its handler then answers
\* 500; no more tasks hold a connection than the pool has connections.
C26_ConnectDoesNotWaitForever ==
    /\ [](Cardinality(InUse) <= MaxPool)
    /\ [][\A t \in Tasks :
            (pool[t].pc = "waiting" /\ Cardinality(InUse) = MaxPool
                /\ pool'[t].pc # "waiting")
            => pool'[t].pc = "failed"]_vars
    /\ \A t \in Tasks :
          /\ (pool[t].pc = "waiting") ~> (pool[t].pc \in {"holding", "failed"})
          /\ (pool[t].pc = "failed")
                ~> (pool[t].pc = "responded" /\ pool[t].status = Some(500))

\* every connection of the pool is in use, the connect of one more task has
\* waited until its deadline and returned the connect error, and the handler
\* of that task has answered 500
C26_Witness ==
    /\ Cardinality(InUse) = MaxPool
    /\ \E t \in Tasks :
          /\ pool[t].pc = "responded"
          /\ pool[t].connect # None
          /\ pool[t].connect[1].tag = "Connect"
          /\ pool[t].status = Some(500)

\* C27: the creator that get_version_metadata and get_versions return for a
\* version is the identity, id and name, of the connection whose
\* add_version returned it, and the identity get_activator returns is the
\* identity, id and name, of the connection whose activate made the version
\* active.
C27_IdentityIsSnapshotOfIdAndName ==
    /\ \A i \in DOMAIN issued :
          /\ \A r \in VersionMetadataResults(issued[i].version, "ok") :
                /\ r.tag = "Ok"
                /\ r.val # None
                /\ r.val[1].creator = issued[i].creator
          /\ \A r \in VersionsResults("ok") :
                /\ r.tag = "Ok"
                /\ issued[i].version \in DOMAIN r.val
                /\ r.val[issued[i].version].creator = issued[i].creator
    /\ pointer # None => ActivatorResults("ok") = {Ok(Some(pointer[1].by))}

\* C28: in every state get_versions() returns a map whose keys are exactly
\* the version numbers that add_version calls have returned, and that maps
\* each key k to a metadata of version k, the one get_version_metadata(k)
\* returns.
C28_VersionsMapIsTheIssuedVersions ==
    \A r \in VersionsResults("ok") :
        /\ r.tag = "Ok"
        /\ DOMAIN r.val = IssuedVersions
        /\ \A k \in DOMAIN r.val :
              /\ r.val[k].version = k
              /\ VersionMetadataResults(k, "ok") = {Ok(Some(r.val[k]))}

\* two versions of different callers are in the map of get_versions()
C28_Witness ==
    /\ Len(issued) = 2
    /\ issued[1].creator # issued[2].creator
    /\ \E r \in VersionsResults("ok") : r.tag = "Ok" /\ DOMAIN r.val = {1, 2}

\* C29: an authorized GET of the metadata or of the content of a version
\* that has no row in `policies`, be it the active version, finds nothing
\* and is answered 404 with an empty body; the answer is another one only
\* when the engine fails the SELECT itself, never because the row is absent.
C29_AbsentVersionIsNotFound ==
    /\ \A version \in QueryVersions \ {policies[i].version : i \in DOMAIN policies} :
          \A eng \in {"ok", "notfound"} :
             /\ VersionMetadataResults(version, eng) = {Ok(None)}
             /\ VersionContentResults(version, eng) = {Ok(None)}
    /\ (/\ http.stage = "responded"
        /\ http.endpoint \in {"get_version_metadata", "get_version_content"}
        /\ http.ran # None
        /\ \A i \in DOMAIN policies : policies[i].version # http.ran[1].arg[1])
       => /\ http.user # None
          /\ http.ran[1].ret \in {Ok(None), Err("GetVersion")}
          /\ http.ran[1].ret = Ok(None)
                => http.status = Some(404) /\ http.body = Some(Empty)
          /\ http.status # Some(404)
                => http.status = Some(500) /\ http.ran[1].ret = Err("GetVersion")

\* the content of the active version, which was never added, was asked for
\* and the answer is 404
C29_Witness ==
    /\ http.stage = "responded"
    /\ http.endpoint = "get_version_content"
    /\ http.ran # None
    /\ http.status = Some(404)
    /\ policies = <<>>
    /\ ActiveVersionResults("ok") = {Ok(Some(http.ran[1].arg[1]))}

\* C30: instantiated_path panics whenever one of its arguments holds the
\* character '/', so a path it returns has as many '/'-separated segments
\* as the path of the endpoint.
C30_SlashInArgumentPanics ==
    client.ret # None =>
        /\ (\E i \in DOMAIN client.args : \E k \in DOMAIN client.args[i] :
                client.args[i][k] = "/")
              => client.ret[1].tag # "Ok"
        /\ client.ret[1].tag = "Ok"
              => Len(split(client.ret[1].val, "/")) = Len(split(client.endpoint.path, "/"))

\* C31: the read of the active version and the insert of an activate(v) call
\* are one step for the other calls: a call commits a ledger row for v only
\* when v is not the active version of the committed ledger, the row is the
\* only change, and so no two rows next to each other in the ledger are open
\* events of one version, however the calls overlap.
C31_ConcurrentActivateAddsOneRow ==
    /\ [](\A i \in 1..(Len(ledger) - 1) :
            ~(/\ ledger[i].version = ledger[i + 1].version
              /\ ledger[i].deactivated_on = None
              /\ ledger[i + 1].deactivated_on = None))
    /\ [][\A c \in Conns :
            (pc[c] = "commit" /\ call[c].op = "activate" /\ pc'[c] = "idle"
                /\ ledger' # ledger)
            => /\ Len(ledger') = Len(ledger) + 1
               /\ SubSeq(ledger', 1, Len(ledger)) = ledger
               /\ ledger'[Len(ledger')].version = call[c].arg[1]
               /\ ActiveVersionResults("ok") # {Ok(Some(call[c].arg[1]))}]_vars

NewestRows(tbl) ==
    { i \in DOMAIN tbl : \A k \in DOMAIN tbl : tbl[k].created_at <= tbl[i].created_at }

C33_CancelledCallIsAllOrNothing ==
    /\ [](\A i \in DOMAIN ledger :
            ledger[i].deactivated_on = None <=> ledger[i].deactivated_by = None)
    /\ [][(policies' # policies \/ ledger' # ledger)
          => \E c \in Conns :
                /\ pc[c] = "commit"
                /\ policies' = tx[c].work.policies
                /\ ledger' = tx[c].work.ledger
                /\ last'.conn = c
                /\ last'.ret.tag = "Ok"]_vars
    /\ [][\A c \in Conns :
            /\ (last'.conn = c /\ last'.ret.tag = "Cancelled")
                  => /\ pc[c] = "called"
                     /\ lock # Some(c)
                     /\ UNCHANGED <<policies, ledger, lock, issued, pointer>>
            /\ (pc[c] \in {"read", "write", "commit"} /\ pc'[c] # pc[c])
                  => \/ /\ pc[c] = "read" /\ pc'[c] = "write"
                     \/ /\ pc[c] = "write" /\ pc'[c] = "commit"
                     \/ /\ pc'[c] = "idle"
                        /\ last'.conn = c
                        /\ last'.ret.tag # "Cancelled"]_vars

\* an add_version call was dropped while the transaction of the other
\* connection waits for its COMMIT
C33_Witness ==
    /\ last.op = "add_version"
    /\ last.ret = Err("Cancelled")
    /\ \E d \in Conns : d # last.conn /\ pc[d] = "commit" /\ lock = Some(d)

\* C34: when the worker that runs the closure of a store call crashes, the
\* call returns the SpawnBlocking error to its caller.
C34_WorkerCrashIsSpawnBlockingError ==
    [][\A c \in Conns : Crash(c) => last'.ret = Err("SpawnBlocking")]_vars

\* the first step of the fixed order that fails for a request: the header
\* is there, is text, starts with "Bearer ", carries a token with a decodable
\* header; the key id is there and in the store; the signature is that of
\* the stored key and the expiry is there and ahead; the initiator claim is
\* there and is a string or a number
FirstFault(headers, now) ==
    IF BearerFault(headers) # None THEN BearerFault(headers)[1]
    ELSE LET raw == Tail(headers["authorization"].text) IN
         IF raw[1].kid = None THEN "HeaderKidNotFound"
         ELSE IF raw[1].kid[1] \notin DOMAIN KeyStore THEN "UnknownKeyId"
         ELSE IF \/ ~SignedWithNamedKey(raw)
                 \/ "exp" \notin DOMAIN raw[2]
                 \/ raw[2]["exp"].num < now
              THEN "JwtValidate"
         ELSE IF initiator_claim \notin DOMAIN raw[2] THEN "JwtMissingInitiatorClaim"
         ELSE IF raw[2][initiator_claim].type \notin {"String", "Number"}
              THEN "JwtIllegalType"
         ELSE "none"

\* C35: authorize answers with the fault of the first step that fails in the
\* order header present, text, Bearer prefix, token header decodable, key
\* resolved, signature and expiry valid, initiator claim: an unknown key id
\* is answered 404 and no key id 400 whatever the signature and the claims
\* are, a token that fails validation 401 whatever its initiator claim is,
\* and an identity comes only from a request that passes every step.
C35_FirstFailingStepDecides ==
    http.stage \in {"handler", "responded"} =>
        LET fault == FirstFault(http.headers, clock)
            auth == authorize(http.headers, clock)
        IN  /\ auth.tag = "Ok"
            /\ fault = "none"
                  => /\ auth.val.tag = "Ok"
                     /\ http.user = Some(auth.val.val)
            /\ fault # "none"
                  => /\ http.stage = "responded"
                     /\ http.user = None
            /\ fault \in {"HeaderKidNotFound", "UnknownKeyId"}
                  => /\ auth.val = [tag |-> "KeyResolve", val |-> Err(fault)]
                     /\ http.status = Some(IF fault = "UnknownKeyId" THEN 404 ELSE 400)
            /\ fault \notin {"none", "HeaderKidNotFound", "UnknownKeyId"}
                  => /\ auth.val = Err(fault)
                     /\ http.status = Some(IF fault = "JwtValidate" THEN 401 ELSE 400)

\* a token that names the unknown key id "Z", is signed with a secret the
\* store does not hold and has expired claims without a usable initiator
\* has been answered 404
C35_Witness ==
    /\ http.stage = "responded"
    /\ http.status = Some(404)
    /\ NamesUnknownKey(http.headers)
    /\ extract_jwt(http.headers).val[3].secret = "bad"
    /\ extract_jwt(http.headers).val[2]["exp"] = Expired
    /\ extract_jwt(http.headers).val[2][initiator_claim] = JsonArray

\* the activate(v) of connection c has read that nothing is active, and its
\* ledger holds an event of v that was deactivated
Reactivating(c) ==
    /\ pc[c] = "write"
    /\ call[c].op = "activate"
    /\ tx[c].seen = Some(None)
    /\ \E i \in DOMAIN tx[c].work.ledger :
          /\ tx[c].work.ledger[i].version = call[c].arg[1]
          /\ tx[c].work.ledger[i].deactivated_on # None

\* what the insert of connection c's activate does when the engine works
Reactivated(c) ==
    ActivateBody(tx[c].work.ledger, tx[c].seen[1], call[c].arg[1], ConnUser(c),
                 UtcNow(clock), "ok")

\* C36: when v was activated and deactivated before and nothing is active,
\* the insert of activate(v) is accepted by a working engine: it appends a
\* new open event of v to the ledger, which the call commits, and
\* get_active_version() then returns v.
C36_ReactivationSucceeds ==
    /\ [](\A c \in Conns : Reactivating(c) =>
            /\ Reactivated(c).ret.tag = "Ok"
            /\ Reactivated(c).ret.val.tbl
                 = Append(tx[c].work.ledger,
                          [ version        |-> call[c].arg[1],
                            activated_by   |-> ConnUser(c).id,
                            activated_on   |-> clock,
                            deactivated_by |-> None,
                            deactivated_on |-> None ])
            /\ { _get_active_version(Load("ok", rows)) :
                    rows \in LoadActive(Reactivated(c).ret.val.tbl) }
                 = { Ok(Some(call[c].arg[1])) })
    /\ [][\A c \in Conns :
            (Reactivating(c) /\ pc'[c] = "commit")
            => tx'[c].work.ledger = Reactivated(c).ret.val.tbl]_vars
    /\ [][\A c \in Conns :
            (pc[c] = "commit" /\ call[c].op = "activate" /\ pc'[c] = "idle"
                /\ last'.ret.tag = "Ok")
            => /\ ledger' = tx[c].work.ledger
               /\ \A rows \in LoadActive(ledger') :
                     _get_active_version(Load("ok", rows)) = Ok(Some(call[c].arg[1]))]_vars

\* the body of the request arrived whole and is no JSON, or JSON that is not
\* an object with the fields of the request of the endpoint
Unparsable ==
    /\ http.payload # None
    /\ http.payload[1].stream = "whole"
    /\ LET bytes == http.payload[1].bytes IN
       \/ bytes.type = "NoJson"
       \/ http.endpoint = "add_version" /\ DOMAIN bytes # {"type", "metadata", "contents"}
       \/ /\ http.endpoint = "activate"
          /\ \A n \in VersionArgs : bytes # VersionJson(JsonNumber(n))

\* C37: an authorized request to add a version or to activate one whose body
\* is no JSON of the request type is answered 400 by the handler before it
\* connects to the store: no connection is opened, no operation is run, and
\* the step that answers 400 leaves `policies`, the ledger and the clock as
\* they were.  Until the handler answers, the request is as it was and only
\* the wall clock can move.
C37_UnparsableBodyIsRefusedUnconnected ==
    /\ []((/\ http.stage = "responded"
           /\ http.endpoint \in BodyEndpoints
           /\ http.user # None
           /\ Unparsable)
          => /\ http.status = Some(400)
             /\ http.conn = None
             /\ http.ran = None)
    /\ [][(/\ http.stage = "handler"
           /\ http.endpoint \in BodyEndpoints
           /\ Unparsable)
          => \/ /\ http'.stage = "responded"
                /\ http'.status = Some(400)
                /\ http'.user = http.user
                /\ <<policies, ledger, clock, issued, pointer>>'
                     = <<policies, ledger, clock, issued, pointer>>
             \/ /\ http' = http
                /\ <<policies, ledger, issued, pointer>>'
                     = <<policies, ledger, issued, pointer>>]_vars

\* an authorized request to add a version, with a body of another shape, has
\* been answered 400 on a store that holds a version
C37_Witness ==
    /\ http.stage = "responded"
    /\ http.endpoint = "add_version"
    /\ http.user # None
    /\ http.payload = Some(Body("whole", VersionJson(JsonNumber(1))))
    /\ http.status = Some(400)
    /\ Len(policies) = 1

\* C38: serve_router returns only from the bind of the listener, with
\* Error::ListenerBind.  Once the listener is bound it stays bound whatever
\* happens: after a failed accept, a connection that failed, or a request
\* answered with a fault, and whatever the handlers do to the store, the
\* loop still accepts every connection that comes, and a connection it has
\* accepted gets its task and the loop is back at accept.
C38_AcceptLoopNeverEnds ==
    /\ [](listener.state = "returned" <=> listener.ret = Some(Err("ListenerBind")))
    /\ [][/\ listener.state = "running" => listener'.state = "running"
          /\ listener'.state = "returned" => listener.state \in {"starting", "returned"}]_vars
    /\ []((listener.state = "running" /\ listener.socket = None)
            => \A socket \in Sockets :
                  listener.tasks[socket] = "none" => ENABLED AcceptOk(socket))
    /\ (listener.state = "running" /\ listener.socket # None)
          ~> (listener.state = "running" /\ listener.socket = None)

\* a connection has been accepted after an accept failed, a connection
\* failed while it was served and a version was added, and while the request
\* of another connection is answered with a client fault
C38_Witness ==
    /\ listener.state = "running"
    /\ listener.socket # None
    /\ listener.logged = {"Failed to accept incoming connection",
                          "Failed to serve incoming connection"}
    /\ Len(policies) = 1
    /\ http.stage = "responded"
    /\ http.status = Some(400)
    /\ http.socket # None
    /\ http.socket # listener.socket

\* the components of a path, from the left, each argument replaced by the
\* next of `args` that is not used yet
RECURSIVE Replaced(_, _)
Replaced(components, args) ==
    IF components = <<>> THEN <<>>
    ELSE IF IsArgument(Head(components))
         THEN <<Head(args)>> \o Replaced(Tail(components), Tail(args))
    ELSE <<Head(components)>> \o Replaced(Tail(components), args)

\* C39: instantiated_path panics when the number of arguments differs from
\* the number of `{...}` segments of the path, for too few and for too many,
\* and else returns the path with its k-th `{...}` segment replaced by the
\* k-th argument and every other segment as it is.
C39_ArgumentsFillSegmentsInOrder ==
    client.ret # None =>
        LET components == split(client.endpoint.path, "/")
            segments == Len(SelectSeq(components, IsArgument))
            ret == client.ret[1]
        IN  /\ segments > Len(client.args) => ret = Err("NotEnoughArguments")
            /\ segments < Len(client.args) => ret = Err("TooManyArguments")
            /\ segments = Len(client.args)
                  => ret = Ok(join(Replaced(components, client.args), "/"))

\* a path with two arguments has been instantiated with two different texts
C39_Witness ==
    /\ client.ret # None
    /\ client.ret[1].tag = "Ok"
    /\ Len(client.args) = 2
    /\ client.args[1] # client.args[2]
    /\ client.ret[1].val
         = <<"/", "v", "2", "/">> \o client.args[1] \o <<"/", "x", "/">> \o client.args[2]

====
